---- MODULE Spec2Model ----
\* Credential-profile management and WSL <-> Windows synchronisation of
\* переключатель_аккаунтов_codex.py, as a state machine over an abstract
\* file system.  One process (a run of main()) executes one core call at a
\* time; every file-system effect of a call is a separate step, so that a
\* crash can fall between any two of them.
EXTENDS Integers, Sequences, FiniteSets, TLC

\* ------------------------------------------------------------------ bounds

\* Core calls (and external logins) begun in one behaviour.
MaxOps == 3
\* Last value of the wall clock, in clock ticks.
MaxClock == 2
\* Times the process ends (by a crash or by being closed) in one behaviour.
MaxStops == 1
\* Clock ticks per second: file times are finer than the one-second
\* resolution of the backup names and of the bridge's tie window.
TicksPerSec == 2
\* Subdirectories of /mnt/c/Users looked at by the scan for the Windows side.
MaxUsers == 2

\* ------------------------------------------------------------------ names

\* A profile name is a sequence of one-character strings.
\* "_backups" (BACKUPS_DIR.name) is abbreviated to the two characters "_b".
BackupsName == <<"_", "b">>

\* The names handed to save and delete.
InputNames == {<<"w">>, <<"W">>, BackupsName, <<" ", "w">>, <<>>}

\* The names handed to save and delete where name validation is looked at:
\* empty, blank, ".", "..", with a separator, ordinary ("w", "w-2"), ending
\* in a space or a dot, with a character Windows reserves.
NameInputs ==
    {<<>>, <<" ">>, <<".">>, <<".", ".">>, <<"w", "/">>, <<"\\">>,
     <<"w">>, <<"w", "-", "2">>, <<"w", " ">>, <<"w", ".">>, <<":">>}

\* str.lower() of one character, over the characters in use.
LowerChar(c) == IF c = "W" THEN "w" ELSE c

Lower(n) == [i \in 1..Len(n) |-> LowerChar(n[i])]

IsSpace(c) == c = " "

RECURSIVE LStrip(_)
LStrip(n) == IF n # <<>> /\ IsSpace(Head(n)) THEN LStrip(Tail(n)) ELSE n

RECURSIVE RStrip(_)
RStrip(n) ==
    IF n # <<>> /\ IsSpace(n[Len(n)]) THEN RStrip(SubSeq(n, 1, Len(n) - 1)) ELSE n

\* str.strip()
Strip(n) == RStrip(LStrip(n))

Contains(n, chars) == \E i \in 1..Len(n) : n[i] \in chars

EndsWith(n, chars) == n # <<>> /\ n[Len(n)] \in chars

\* invalid = '<>:"/\\|?*'
NtInvalidChars == {"<", ">", ":", "\"", "/", "\\", "|", "?", "*"}

\* _validate_profile_name: the stripped name, or the ValueError raised.
ValidateProfileName(raw, isNt) ==
    LET name == Strip(raw) IN
    IF name = <<>> THEN [ok |-> FALSE, name |-> name, err |-> "empty"]
    ELSE IF name \in {<<".">>, <<".", ".">>}
        THEN [ok |-> FALSE, name |-> name, err |-> "reserved"]
    ELSE IF Contains(name, {"/", "\\"})
        THEN [ok |-> FALSE, name |-> name, err |-> "separator"]
    ELSE IF isNt /\ Contains(name, NtInvalidChars)
        THEN [ok |-> FALSE, name |-> name, err |-> "ntchars"]
    ELSE IF isNt /\ EndsWith(name, {" ", "."})
        THEN [ok |-> FALSE, name |-> name, err |-> "ntsuffix"]
    ELSE [ok |-> TRUE, name |-> name, err |-> ""]

\* The directory names a call can create or address.
DirNames == {<<"w">>, <<"W">>, BackupsName}

\* ------------------------------------------------------- credential documents

\* The byte contents of credential files, as opaque identifiers:
\*   c1  {"tokens":{"account_id":"acc1","id_token":"h.p1.s","refresh_token":"r1"}}
\*   c2  {"OPENAI_API_KEY":"sk-x","tokens":{"account_id":"acc2","refresh_token":"r2"}}
\*   bad bytes that are not a JSON document
Creds == {"c1", "c2", "bad"}

JNull == [t |-> "null", v |-> ""]
JStr(s) == [t |-> "str", v |-> s]
JDict(f) == [t |-> "dict", v |-> f]
\* A number other than 0, and a list that is not empty.
JNum(n) == [t |-> "num", v |-> n]
JList == [t |-> "list", v |-> "x"]

\* _load_json: json.loads of the file's text; ok = FALSE when it raises.
LoadJson(bytes) ==
    CASE bytes = "c1" ->
            [ok |-> TRUE,
             val |-> JDict([tokens |-> JDict([account_id |-> JStr("acc1"),
                                              id_token |-> JStr("h.p1.s"),
                                              refresh_token |-> JStr("r1")])])]
      [] bytes = "c2" ->
            [ok |-> TRUE,
             val |-> JDict([OPENAI_API_KEY |-> JStr("sk-x"),
                            tokens |-> JDict([account_id |-> JStr("acc2"),
                                              refresh_token |-> JStr("r2")])])]
      [] OTHER -> [ok |-> FALSE, val |-> JNull]

\* dict.get(key)
Get(d, key) == IF key \in DOMAIN d.v THEN d.v[key] ELSE JNull

IsDict(j) == j.t = "dict"

\* isinstance(v, str) and v
NonEmptyStr(j) == j.t = "str" /\ j.v # ""

\* Python truth value of a JSON value.
Truthy(j) ==
    CASE j.t = "null" -> FALSE
      [] j.t = "str" -> j.v # ""
      [] j.t = "dict" -> DOMAIN j.v # {}
      [] OTHER -> TRUE

\* token.split(".")
SplitDots(token) ==
    CASE token = "h.p1.s" -> <<"h", "p1", "s">>
      [] token = "h.p2.s" -> <<"h", "p2", "s">>
      [] token = "h.p3.s" -> <<"h", "p3", "s">>
      [] token = "h.p4.s" -> <<"h", "p4", "s">>
      [] token = "h.p5.s" -> <<"h", "p5", "s">>
      [] token = "h.p6.s" -> <<"h", "p6", "s">>
      [] token = "h.pl.s" -> <<"h", "pl", "s">>
      [] token = "h.p1" -> <<"h", "p1">>
      [] token = "h.px" -> <<"h", "px">>
      [] OTHER -> <<token>>

\* base64.urlsafe_b64decode of the padded segment, then json.loads.
B64Json(segment) ==
    CASE segment = "p1" -> [ok |-> TRUE, val |-> JDict([email |-> JStr("a@b.com")])]
      [] segment = "p2" ->
            [ok |-> TRUE, val |-> JDict([preferred_username |-> JStr("u@b.com")])]
      [] segment = "p3" ->
            [ok |-> TRUE, val |-> JDict([email |-> JNum("5"),
                                         preferred_username |-> JStr("u@b.com")])]
      [] segment = "p4" ->
            [ok |-> TRUE, val |-> JDict([email |-> JStr(""),
                                         preferred_username |-> JStr("u@b.com")])]
      [] segment = "p5" ->
            [ok |-> TRUE, val |-> JDict([email |-> JStr("a@b.com"),
                                         preferred_username |-> JStr("u@b.com")])]
      [] segment = "p6" ->
            [ok |-> TRUE, val |-> JDict([preferred_username |-> JNum("5")])]
      [] segment = "pl" -> [ok |-> TRUE, val |-> JList]
      [] OTHER -> [ok |-> FALSE, val |-> JNull]

\* _decode_jwt_payload: the payload dict, or JNull for None.
DecodeJwtPayload(token) ==
    LET parts == SplitDots(token) IN
    IF Len(parts) < 2 THEN JNull
    ELSE LET r == B64Json(parts[2]) IN
         IF r.ok /\ IsDict(r.val) THEN r.val ELSE JNull

\* Mutant: the API key is tested as it is, not stripped.
MutStripStrKeepsBlanks(s) == s

\* str.strip() of an API key, over the keys in use.
StripStr(s) == IF s \in {"", " "} THEN "" ELSE s

\* An optional string: <<>> is None, <<s>> is the string s.
None == <<>>
Some(s) == <<s>>

EmptyAuthInfo == [account_id |-> None, email |-> None, login_type |-> None]

\* _extract_auth_info
ExtractAuthInfo(auth) ==
    LET tokens == IF IsDict(auth) THEN Get(auth, "tokens") ELSE JNull
        acc == IF IsDict(tokens) /\ NonEmptyStr(Get(tokens, "account_id"))
               THEN Some(Get(tokens, "account_id").v) ELSE None
        idTok == IF IsDict(tokens) /\ NonEmptyStr(Get(tokens, "id_token"))
                 THEN Some(Get(tokens, "id_token").v) ELSE None
        payload == IF idTok # None THEN DecodeJwtPayload(idTok[1]) ELSE JNull
        claim == IF IsDict(payload)
                 THEN IF Truthy(Get(payload, "email")) THEN Get(payload, "email")
                      ELSE Get(payload, "preferred_username")
                 ELSE JNull
        email == IF NonEmptyStr(claim) THEN Some(claim.v) ELSE None
        apiKey == IF IsDict(auth) THEN Get(auth, "OPENAI_API_KEY") ELSE JNull
        login == IF apiKey.t = "str" /\ StripStr(apiKey.v) # "" THEN Some("api_key")
                 ELSE IF IsDict(tokens) /\ NonEmptyStr(Get(tokens, "refresh_token"))
                      THEN Some("chatgpt")
                 ELSE None
    IN [account_id |-> acc, email |-> email, login_type |-> login]

\* An exception leaves _extract_auth_info: a .get() reached on a value that
\* is no dict, or .strip() on a value that is no string (each guarded by an
\* isinstance test in the code); _decode_jwt_payload is given a string and
\* catches what its decoding raises.
ExtractRaises(auth) ==
    LET tokens == IF IsDict(auth) THEN Get(auth, "tokens") ELSE JNull
        idTok == IF IsDict(tokens) THEN Get(tokens, "id_token") ELSE JNull
        payload == IF NonEmptyStr(idTok) THEN DecodeJwtPayload(idTok.v) ELSE JNull
        apiKey == IF IsDict(auth) THEN Get(auth, "OPENAI_API_KEY") ELSE JNull
    IN \/ IsDict(auth) /\ ~IsDict(auth)
       \/ IsDict(tokens) /\ ~IsDict(tokens)
       \/ NonEmptyStr(idTok) /\ idTok.t # "str"
       \/ IsDict(payload) /\ ~IsDict(payload)
       \/ apiKey.t = "str" /\ apiKey.t # "str"

\* The documents _extract_auth_info is tried on: any JSON value at the top;
\* in a dict, each recognised field missing, of a wrong type, empty or set.
Absent == [t |-> "absent", v |-> ""]

MkDict(fields) ==
    JDict([k \in {x \in DOMAIN fields : fields[x].t # "absent"} |-> fields[k]])

ApiKeyValues == {Absent, JNull, JNum("5"), JStr(""), JStr(" "), JStr("sk-x")}
AccountIdValues == {Absent, JNum("5"), JStr(""), JStr("acc1")}
RefreshValues == {Absent, JNum("5"), JStr(""), JStr("r1")}
IdTokenValues ==
    {Absent, JNum("5"), JStr("")} \cup
    {JStr(t) : t \in {"p1", "h.p1", "h.px", "h.pl.s", "h.p1.s", "h.p2.s",
                      "h.p3.s", "h.p4.s", "h.p5.s", "h.p6.s"}}

TokensValues ==
    {Absent, JStr("t")} \cup
    {MkDict([account_id |-> a, id_token |-> i, refresh_token |-> r]) :
        a \in AccountIdValues, i \in IdTokenValues, r \in RefreshValues}

Documents ==
    {JNull, JStr("s"), JList} \cup
    {MkDict([OPENAI_API_KEY |-> k, tokens |-> t]) : k \in ApiKeyValues, t \in TokensValues}

\* read_auth_info_from_path: ok = FALSE when _load_json raises.
ReadAuthInfo(bytes) ==
    LET r == LoadJson(bytes) IN
    IF ~r.ok THEN [ok |-> FALSE, info |-> EmptyAuthInfo]
    ELSE IF ~IsDict(r.val) THEN [ok |-> TRUE, info |-> EmptyAuthInfo]
    ELSE [ok |-> TRUE, info |-> ExtractAuthInfo(r.val)]

\* ---------------------------------------------------------------- file system

\* Directories are pairs <<area, name>>; paths are <<area, name, file>>.
HomeDir == <<"home", <<>>>>          \* CODEX_HOME
ProfilesDir == <<"profiles", <<>>>>  \* PROFILES_DIR
HostDir == <<"host", <<>>>>          \* the Windows-side .codex directory
ProfDir(n) == <<"prof", n>>          \* PROFILES_DIR / n
BackupsDir == ProfDir(BackupsName)   \* BACKUPS_DIR

AuthName == <<"auth.json", 0>>
AuthTmpName == <<"auth.json.tmp", 0>>
MetaName == <<"meta.json", 0>>
MetaTmpName == <<"meta.json.tmp", 0>>
\* f"auth_{ts}.json" for the second ts
BkName(sec) == <<"auth_TS.json", sec>>

PathIn(dir, file) == <<dir[1], dir[2], file>>
DirOf(path) == <<path[1], path[2]>>
FileOf(path) == path[3]

AuthPath == PathIn(HomeDir, AuthName)       \* AUTH_PATH
HostAuthPath == PathIn(HostDir, AuthName)   \* WINDOWS_CODEX_HOME / "auth.json"
NoPath == <<"", <<>>, <<"", 0>>>>

\* path.with_suffix(path.suffix + ".tmp")
TmpOf(path) ==
    PathIn(DirOf(path),
           IF FileOf(path) = AuthName THEN AuthTmpName
           ELSE IF FileOf(path) = MetaName THEN MetaTmpName
           ELSE <<"other.tmp", FileOf(path)[2]>>)

\* The content of a file: the bytes of a credential, or the JSON text of a
\* meta.json (created_at is left out: nothing reads it back).
CredData(c) == [k |-> "cred", b |-> c]
MetaData(name, info) ==
    [k |-> "meta", name |-> name, account_id |-> info.account_id,
     email |-> info.email, login_type |-> info.login_type]
NoData == [k |-> "none"]

\* A file: its content, whether the content is complete (a file being
\* written holds a prefix of it), whether its mode is owner-only, and its
\* modification time.  Modification times are read by the bridge alone, of
\* the two auth.json files and once the Windows-side store is found: they
\* are kept for those files where that store exists, every other file
\* carries 0.
File(data, full, priv, mtime) ==
    [data |-> data, full |-> full, priv |-> priv, mtime |-> mtime]

TimedPaths == {AuthPath, HostAuthPath, TmpOf(AuthPath), TmpOf(HostAuthPath)}
Stamp(path, t, ds) == IF path \in TimedPaths /\ HostDir \in ds THEN t ELSE 0

\* What read_bytes returns: the content as it is on disk.
Buf(data, full) == [data |-> data, full |-> full]
NoBuf == Buf(NoData, TRUE)

\* fs with path set to file f.
Put(f, path, file) ==
    [q \in DOMAIN f \cup {path} |-> IF q = path THEN file ELSE f[q]]

\* fs without the paths in gone.
Drop(f, gone) == [q \in DOMAIN f \ gone |-> f[q]]

FilesIn(f, dir) == {q \in DOMAIN f : DirOf(q) = dir}

\* A case-insensitive file system (Windows) finds an existing directory under
\* any spelling of its name that differs only in case.
OnDisk(dir, ds, isNt) ==
    IF isNt /\ dir \notin ds /\ \E e \in ds : e[1] = dir[1] /\ Lower(e[2]) = Lower(dir[2])
    THEN CHOOSE e \in ds : e[1] = dir[1] /\ Lower(e[2]) = Lower(dir[2])
    ELSE dir

ResolvePath(path, ds, isNt) == PathIn(OnDisk(DirOf(path), ds, isNt), FileOf(path))

\* Path.exists() of a directory and of a file.
DirExists(dir, ds, isNt) == OnDisk(dir, ds, isNt) \in ds
FileExists(path, f, ds, isNt) == ResolvePath(path, ds, isNt) \in DOMAIN f

\* path.mkdir(parents=True, exist_ok=True)
Parents(dir) ==
    CASE dir[1] = "prof" -> {HomeDir, ProfilesDir}
      [] dir[1] = "profiles" -> {HomeDir}
      [] OTHER -> {}

SafeMkdir(dir, ds, isNt) ==
    IF DirExists(dir, ds, isNt) THEN ds ELSE ds \cup Parents(dir) \cup {dir}

\* ------------------------------------------------------------ list_profiles

\* Order of two names under key=lambda p: p.name.lower().
CharRank(c) ==
    CASE c = " " -> 0 [] c = "." -> 1 [] c = "_" -> 2 [] c = "b" -> 3
      [] c = "w" -> 4 [] OTHER -> 5

RECURSIVE SeqLeq(_, _)
SeqLeq(a, b) ==
    IF a = <<>> THEN TRUE
    ELSE IF b = <<>> THEN FALSE
    ELSE IF CharRank(Head(a)) < CharRank(Head(b)) THEN TRUE
    ELSE IF CharRank(Head(a)) > CharRank(Head(b)) THEN FALSE
    ELSE SeqLeq(Tail(a), Tail(b))

KeyLeq(a, b) == SeqLeq(Lower(a), Lower(b))

\* Mutant: directories whose name starts with "_" are listed too.
MutListedNamesKeepsUnderscore(f, ds) ==
    {d[2] : d \in {e \in ds : /\ e[1] = "prof"
                              /\ PathIn(e, AuthName) \in DOMAIN f}}

\* The entries list_profiles keeps: directories under PROFILES_DIR whose
\* name does not start with "_" and which hold an auth.json.
ListedNames(f, ds) ==
    {d[2] : d \in {e \in ds : /\ e[1] = "prof"
                              /\ ~(e[2] # <<>> /\ Head(e[2]) = "_")
                              /\ PathIn(e, AuthName) \in DOMAIN f}}

\* AuthInfo of a listed entry: empty when the file does not parse.
ListedAuthInfo(f, name) ==
    LET d == f[PathIn(ProfDir(name), AuthName)].data
        r == IF d.k = "cred" THEN LoadJson(d.b) ELSE [ok |-> FALSE, val |-> JNull]
    IN IF r.ok /\ IsDict(r.val) THEN ExtractAuthInfo(r.val) ELSE EmptyAuthInfo

\* Every result list_profiles can return: sorted() is stable, and iterdir()
\* yields names with equal keys in an order the file system chooses.
ListProfiles(f, ds) ==
    LET names == ListedNames(f, ds)
        n == Cardinality(names)
    IN {s \in [1..n -> names] :
          /\ \A i, j \in 1..n : i # j => s[i] # s[j]
          /\ \A i, j \in 1..n : i < j => KeyLeq(s[i], s[j])}

\* -------------------------------------------------------------------- state

VARIABLES
    fs,       \* the files: a function from the paths that exist to File records
    dirs,     \* the directories that exist
    nt,       \* os.name == "nt"
    clock,    \* the wall clock, in ticks
    pc,       \* per process: the call in progress and its local variables
    last,     \* per process: the outcome of the call that has just returned
    pre,      \* per process: fs and dirs as they were when the call began
    winHome,  \* per process: the global WINDOWS_CODEX_HOME
    ops,      \* calls begun so far
    stops,    \* process ends so far
    extract,  \* a call of _extract_auth_info: its argument and what it returned
    prev,     \* per process: the call before this one, if no login came since
    find      \* a call of _find_windows_codex_home: its environment and result

vars == <<fs, dirs, nt, clock, pc, last, pre, winHome, ops, stops, extract, prev, find>>

\* The runs of main(); Spec starts only the first.
Procs == {1, 2}
MainProcs == {1}

Frame(op, step, name, ow, src, dst, bk, buf) ==
    [op |-> op, step |-> step, name |-> name, ow |-> ow,
     src |-> src, dst |-> dst, bk |-> bk, buf |-> buf]

Down == Frame("down", "", <<>>, FALSE, NoPath, NoPath, NoPath, NoBuf)
Idle == Frame("idle", "", <<>>, FALSE, NoPath, NoPath, NoPath, NoBuf)

Result(op, status, name, ow) ==
    [op |-> op, status |-> status, name |-> name, ow |-> ow]
NoResult == Result("", "", <<>>, FALSE)

Snap(f, ds, arg) == [fs |-> f, dirs |-> ds, arg |-> arg]
NoSnap == Snap(<<>>, {}, <<>>)

\* The call returns (or raises) to its caller with the given outcome.
Returned(p, op, status, name, ow) ==
    /\ pc' = [pc EXCEPT ![p] = Frame(op, "ret", name, ow, NoPath, NoPath, NoPath, NoBuf)]
    /\ last' = [last EXCEPT ![p] = Result(op, status, name, ow)]

\* The call moves on to its next step.
Goto(p, frame) ==
    /\ pc' = [pc EXCEPT ![p] = frame]
    /\ UNCHANGED last

Sec(t) == IF t < 0 THEN 0 ELSE t \div TicksPerSec

\* The seconds a backup name can carry.
Seconds == 0..Sec(MaxClock)

Quiet == \A q \in Procs : pc[q].op \in {"down", "idle"}

\* A call of _extract_auth_info on a document: where it stands ("idle": not
\* made, "called", "done") and its outcome (raised when an exception leaves
\* it, otherwise the summary returned).
Extraction(step, doc, raised, info) ==
    [step |-> step, doc |-> doc, raised |-> raised, info |-> info]
NoExtract == Extraction("idle", JNull, FALSE, EmptyAuthInfo)

\* The call a process made before the one in progress, kept while no login
\* has written the active credential since: its outcome, and the bytes of the
\* active credential when it began (NoBuf: there was none).
Prev(op, status, name, active) ==
    [op |-> op, status |-> status, name |-> name, active |-> active]
NoPrev == Prev("", "", <<>>, NoBuf)

\* A call of _find_windows_codex_home: where it stands, the environment it
\* is made in, the directory it returned and the sources it consulted.
Finding(step, env, home, asked) ==
    [step |-> step, env |-> env, home |-> home, asked |-> asked]
NoFind == Finding("idle", <<>>, <<"none">>, {})

\* The credentials and modification times found when the tool is first run.
InitLocal == {<<>>} \cup {<<File(CredData(c), TRUE, TRUE, m)>> : c \in Creds, m \in {0 - TicksPerSec, 0}}
InitHost == {<<>>} \cup {<<File(CredData(c), TRUE, TRUE, m)>> : c \in {"c1", "c2"}, m \in {0 - TicksPerSec, 0 - 1, 0}}

InitFs(l, h) ==
    [q \in (IF l = <<>> THEN {} ELSE {AuthPath}) \cup (IF h = <<>> THEN {} ELSE {HostAuthPath})
        |-> IF q = AuthPath THEN l[1] ELSE h[1]]

\* The state before the tool is first run: no profile was ever saved; the
\* active credential and (with withHost, as seen from WSL) the Windows-side
\* store are as the login command left them.
InitWith(withHost) ==
    /\ nt \in (IF withHost THEN {FALSE} ELSE BOOLEAN)
    /\ clock = 0
    /\ \E l \in InitLocal, h \in InitHost, hostDir \in BOOLEAN :
          /\ ~withHost => (h = <<>> /\ ~hostDir)
          /\ h # <<>> => hostDir
          /\ (l # <<>> /\ h # <<>>) => (l[1].mtime = 0 \/ h[1].mtime = 0)
          /\ (l # <<>> /\ h = <<>>) => l[1].mtime = 0
          /\ (l = <<>> /\ h # <<>>) => h[1].mtime = 0
          /\ fs = InitFs(l, h)
          /\ dirs = (IF l = <<>> THEN {} ELSE {HomeDir}) \cup (IF hostDir THEN {HostDir} ELSE {})
    /\ pc = [p \in Procs |-> Down]
    /\ last = [p \in Procs |-> NoResult]
    /\ pre = [p \in Procs |-> NoSnap]
    /\ winHome = [p \in Procs |-> "unset"]
    /\ ops = 0
    /\ stops = 0
    /\ extract = NoExtract
    /\ prev = [p \in Procs |-> NoPrev]
    /\ find = NoFind

Init == InitWith(FALSE)

InitBridge == InitWith(TRUE)

\* A registry in use on a POSIX system: the profiles "w" (of the credential
\* c1) and "W" (of c2) were saved, no switch was made yet, and the login
\* command left the active credential l (none, when it was removed).
SavedProfiles == (<<"w">> :> "c1") @@ (<<"W">> :> "c2")

SavedFs(l) ==
    [q \in (IF l = <<>> THEN {} ELSE {AuthPath})
            \cup {PathIn(ProfDir(n), file) : n \in DOMAIN SavedProfiles,
                                              file \in {AuthName, MetaName}}
        |-> IF q = AuthPath THEN l[1]
            ELSE IF FileOf(q) = AuthName
            THEN File(CredData(SavedProfiles[q[2]]), TRUE, TRUE, 0)
            ELSE File(MetaData(q[2], ReadAuthInfo(SavedProfiles[q[2]]).info), TRUE, TRUE, 0)]

InitSaved ==
    /\ nt = FALSE
    /\ clock = 0
    /\ \E l \in {<<>>} \cup {<<File(CredData(c), TRUE, TRUE, 0)>> : c \in Creds} :
          fs = SavedFs(l)
    /\ dirs = {HomeDir, ProfilesDir} \cup {ProfDir(n) : n \in DOMAIN SavedProfiles}
    /\ pc = [p \in Procs |-> Down]
    /\ last = [p \in Procs |-> NoResult]
    /\ pre = [p \in Procs |-> NoSnap]
    /\ winHome = [p \in Procs |-> "unset"]
    /\ ops = 0
    /\ stops = 0
    /\ extract = NoExtract
    /\ prev = [p \in Procs |-> NoPrev]
    /\ find = NoFind

\* ------------------------------------------------------------- environment

\* Time passes.  A call takes no time: the clock moves between calls.
Tick ==
    /\ Quiet
    /\ clock < MaxClock
    /\ clock' = clock + 1
    /\ UNCHANGED <<fs, dirs, nt, pc, last, pre, winHome, ops, stops, extract, prev, find>>

\* The external login command writes a new active credential, between calls.
Login(c) ==
    /\ Quiet
    /\ ops < MaxOps
    /\ ops' = ops + 1
    /\ fs' = Put(fs, AuthPath, File(CredData(c), TRUE, TRUE, Stamp(AuthPath, clock, dirs)))
    /\ dirs' = dirs \cup {HomeDir}
    /\ prev' = [p \in Procs |-> NoPrev]
    /\ UNCHANGED <<nt, clock, pc, last, pre, winHome, stops, extract, find>>

\* The process ends at any point: a crash in the middle of a call, or the
\* window being closed between calls.
Stop(p) ==
    /\ pc[p].op # "down"
    /\ stops < MaxStops
    /\ stops' = stops + 1
    /\ pc' = [pc EXCEPT ![p] = Down]
    /\ last' = [last EXCEPT ![p] = NoResult]
    /\ pre' = [pre EXCEPT ![p] = NoSnap]
    /\ winHome' = [winHome EXCEPT ![p] = "unset"]
    /\ prev' = [prev EXCEPT ![p] = IF pc[p].op = "idle" THEN @ ELSE NoPrev]
    /\ UNCHANGED <<fs, dirs, nt, clock, ops, extract, find>>

\* The caller takes the outcome of the call; the tool waits for the next one.
\* The handlers of the window catch what save, switch and delete raise; main
\* catches nothing, so an exception out of the bridge ends the process.
ReturnTo(p) ==
    /\ pc[p].step = "ret"
    /\ IF last[p].op = "bridge" /\ last[p].status = "raised"
       THEN /\ pc' = [pc EXCEPT ![p] = Down]
            /\ winHome' = [winHome EXCEPT ![p] = "unset"]
       ELSE /\ pc' = [pc EXCEPT ![p] = Idle]
            /\ UNCHANGED winHome
    /\ last' = [last EXCEPT ![p] = NoResult]
    /\ pre' = [pre EXCEPT ![p] = NoSnap]
    /\ UNCHANGED <<fs, dirs, nt, clock, ops, stops, extract, find>>

Return(p) ==
    /\ ReturnTo(p)
    /\ UNCHANGED prev

\* The same, where two calls in a row are looked at: the call that returns
\* is kept as the previous one (a list() changes nothing and is not kept).
ReturnNoting(p) ==
    /\ ReturnTo(p)
    /\ prev' = [prev EXCEPT ![p] =
                   IF last[p].op = "list" THEN @
                   ELSE Prev(last[p].op, last[p].status, last[p].name,
                             IF AuthPath \in DOMAIN pre[p].fs
                             THEN Buf(pre[p].fs[AuthPath].data, pre[p].fs[AuthPath].full)
                             ELSE NoBuf)]

\* ------------------------------------------------- _copy_file_private and
\* ------------------------------------------------- _write_text_private

\* Mutant: the content is written straight into the final file.
MutWriteTargetInPlace(dst) == dst

\* The file the content is first written to.
WriteTarget(dst) == TmpOf(dst)

\* os.chmod(path, 0o600): Windows has no owner-only mode to set.
Chmod600(file, isNt) == [file EXCEPT !.priv = IF isNt THEN file.priv ELSE TRUE]

\* Mutant: the read stops short of the end of the source.
MutCopyReadStopsShort(p) ==
    /\ pc[p].step = "read"
    /\ LET src == ResolvePath(pc[p].src, dirs, nt) IN
       IF src \notin DOMAIN fs
       THEN Returned(p, pc[p].op, "IOFailure", pc[p].name, pc[p].ow)
       ELSE Goto(p, [pc[p] EXCEPT !.step = "w_open",
                                  !.buf = Buf(fs[src].data, FALSE)])
    /\ UNCHANGED <<fs, dirs, nt, clock, pre, winHome, ops, stops, extract, prev, find>>

\* src.read_bytes(): the whole source, as it is on disk at that moment.
CopyRead(p) ==
    /\ pc[p].step = "read"
    /\ LET src == ResolvePath(pc[p].src, dirs, nt) IN
       IF src \notin DOMAIN fs
       THEN Returned(p, pc[p].op, "IOFailure", pc[p].name, pc[p].ow)
       ELSE Goto(p, [pc[p] EXCEPT !.step = "w_open",
                                  !.buf = Buf(fs[src].data, fs[src].full)])
    /\ UNCHANGED <<fs, dirs, nt, clock, pre, winHome, ops, stops, extract, prev, find>>

\* tmp.write_bytes / tmp.write_text opens (creates or truncates) the
\* temporary file: until the write ends it holds a prefix of the content.
TmpOpen(p) ==
    /\ pc[p].step = "w_open"
    /\ LET tmp == ResolvePath(WriteTarget(pc[p].dst), dirs, nt) IN
       IF DirOf(tmp) \notin dirs
       THEN /\ Returned(p, pc[p].op, "IOFailure", pc[p].name, pc[p].ow)
            /\ UNCHANGED fs
       ELSE /\ fs' = Put(fs, tmp,
                         File(pc[p].buf.data, FALSE,
                              IF tmp \in DOMAIN fs THEN fs[tmp].priv ELSE FALSE,
                              Stamp(tmp, clock, dirs)))
            /\ Goto(p, [pc[p] EXCEPT !.step = "w_data"])
    /\ UNCHANGED <<dirs, nt, clock, pre, winHome, ops, stops, extract, prev, find>>

\* The write ends and the temporary file is closed.  The bytes go into the
\* file that was opened: if another process has meanwhile renamed it to the
\* final name, they land there; if it is gone, nowhere.
TmpWrite(p) ==
    /\ pc[p].step = "w_data"
    /\ LET tmp == ResolvePath(WriteTarget(pc[p].dst), dirs, nt)
           dst == ResolvePath(pc[p].dst, dirs, nt)
           at == IF tmp \in DOMAIN fs THEN tmp ELSE dst
       IN IF tmp \in DOMAIN fs
             \/ (dst \in DOMAIN fs /\ ~fs[dst].full /\ fs[dst].data = pc[p].buf.data)
          THEN fs' = Put(fs, at, [fs[at] EXCEPT !.data = pc[p].buf.data,
                                                !.full = pc[p].buf.full,
                                                !.mtime = Stamp(at, clock, dirs)])
          ELSE UNCHANGED fs
    /\ Goto(p, [pc[p] EXCEPT !.step = "w_chmod"])
    /\ UNCHANGED <<dirs, nt, clock, pre, winHome, ops, stops, extract, prev, find>>

\* os.chmod(tmp, 0o600); the OSError of a file that is gone is caught.
TmpChmod(p) ==
    /\ pc[p].step = "w_chmod"
    /\ LET tmp == ResolvePath(WriteTarget(pc[p].dst), dirs, nt) IN
       IF tmp \in DOMAIN fs
       THEN fs' = Put(fs, tmp, Chmod600(fs[tmp], nt))
       ELSE UNCHANGED fs
    /\ Goto(p, [pc[p] EXCEPT !.step = "w_replace"])
    /\ UNCHANGED <<dirs, nt, clock, pre, winHome, ops, stops, extract, prev, find>>

\* Mutant: an existing final file is kept and the temporary file dropped.
MutReplaceKeepsOld(p) ==
    /\ pc[p].step = "w_replace"
    /\ LET tmp == ResolvePath(WriteTarget(pc[p].dst), dirs, nt)
           dst == ResolvePath(pc[p].dst, dirs, nt)
       IN /\ tmp \in DOMAIN fs
          /\ fs' = IF dst \in DOMAIN fs THEN Drop(fs, {tmp})
                   ELSE Put(Drop(fs, {tmp}), dst, fs[tmp])
    /\ Goto(p, [pc[p] EXCEPT !.step = "w_final"])
    /\ UNCHANGED <<dirs, nt, clock, pre, winHome, ops, stops, extract, prev, find>>

\* os.replace(tmp, dst): the temporary file takes the final name in one step.
\* A temporary file that another process has taken away makes it raise.
Replace(p) ==
    /\ pc[p].step = "w_replace"
    /\ LET tmp == ResolvePath(WriteTarget(pc[p].dst), dirs, nt)
           dst == ResolvePath(pc[p].dst, dirs, nt)
       IN IF tmp \in DOMAIN fs
          THEN /\ fs' = Put(Drop(fs, {tmp}), dst, fs[tmp])
               /\ Goto(p, [pc[p] EXCEPT !.step = "w_final"])
          ELSE /\ Returned(p, pc[p].op, "IOFailure", pc[p].name, pc[p].ow)
               /\ UNCHANGED fs
    /\ UNCHANGED <<dirs, nt, clock, pre, winHome, ops, stops, extract, prev, find>>

\* os.chmod(dst, 0o600), after which the copy returns to the call that made it:
\* save goes on to the metadata after the credential copy and returns after
\* the metadata; switch and the bridge return.
FinalChmod(p) ==
    /\ pc[p].step = "w_final"
    /\ LET dst == ResolvePath(pc[p].dst, dirs, nt) IN
       IF dst \in DOMAIN fs
       THEN fs' = Put(fs, dst, Chmod600(fs[dst], nt))
       ELSE UNCHANGED fs
    /\ IF pc[p].op = "save" /\ FileOf(pc[p].dst) = AuthName
       THEN Goto(p, [pc[p] EXCEPT !.step = "info"])
       ELSE Returned(p, pc[p].op, IF pc[p].op = "bridge" THEN pc[p].name[1] ELSE "ok",
                     IF pc[p].op = "bridge" THEN Tail(pc[p].name) ELSE pc[p].name,
                     pc[p].ow)
    /\ UNCHANGED <<dirs, nt, clock, pre, winHome, ops, stops, extract, prev, find>>

\* ------------------------------------------------- save_current_as_profile

\* Mutant: PROFILES_DIR is made before the active credential is looked for.
MutSavePlanMkdirFirst(raw, ow, f, ds, isNt) ==
    LET v == ValidateProfileName(raw, isNt)
        ds1 == SafeMkdir(ProfilesDir, ds, isNt)
        pdir == ProfDir(v.name)
    IN IF ~v.ok THEN [status |-> "InvalidName", name |-> raw, dirs |-> ds]
       ELSE IF ~FileExists(AuthPath, f, ds, isNt)
       THEN [status |-> "NotFound", name |-> v.name, dirs |-> ds1]
       ELSE IF DirExists(pdir, ds1, isNt) /\ ~ow
       THEN [status |-> "AlreadyExists", name |-> v.name, dirs |-> ds1]
       ELSE [status |-> "go", name |-> v.name, dirs |-> SafeMkdir(pdir, ds1, isNt)]

\* save_current_as_profile up to the copy of the credential: the name is
\* validated, the active credential must exist, PROFILES_DIR is made, an
\* existing profile directory needs overwrite, the profile directory is made.
\* status is the error raised, or "go"; dirs the directories afterwards.
SavePlan(raw, ow, f, ds, isNt) ==
    LET v == ValidateProfileName(raw, isNt)
        ds1 == SafeMkdir(ProfilesDir, ds, isNt)
        pdir == ProfDir(v.name)
    IN IF ~v.ok THEN [status |-> "InvalidName", name |-> raw, dirs |-> ds]
       ELSE IF ~FileExists(AuthPath, f, ds, isNt)
       THEN [status |-> "NotFound", name |-> v.name, dirs |-> ds]
       ELSE IF DirExists(pdir, ds1, isNt) /\ ~ow
       THEN [status |-> "AlreadyExists", name |-> v.name, dirs |-> ds1]
       ELSE [status |-> "go", name |-> v.name, dirs |-> SafeMkdir(pdir, ds1, isNt)]

SaveBegin(p, raw, ow) ==
    /\ pc[p].op = "idle"
    /\ ops < MaxOps
    /\ ops' = ops + 1
    /\ pre' = [pre EXCEPT ![p] = Snap(fs, dirs, raw)]
    /\ LET plan == SavePlan(raw, ow, fs, dirs, nt) IN
       /\ dirs' = plan.dirs
       /\ IF plan.status # "go"
          THEN Returned(p, "save", plan.status, plan.name, ow)
          ELSE Goto(p, Frame("save", "read", plan.name, ow, AuthPath,
                             PathIn(ProfDir(plan.name), AuthName), NoPath, NoBuf))
    /\ UNCHANGED <<fs, nt, clock, winHome, stops, extract, prev, find>>

\* The metadata written beside the copy.
MetaFor(name, info) == MetaData(name, info)

\* read_auth_info_from_path(auth_dst) and the meta dictionary; a credential
\* that is not JSON makes _load_json raise, and save with it.
SaveInfo(p) ==
    /\ pc[p].step = "info"
    /\ LET auth == ResolvePath(PathIn(ProfDir(pc[p].name), AuthName), dirs, nt)
           d == fs[auth].data
           r == IF d.k = "cred" THEN ReadAuthInfo(d.b)
                ELSE [ok |-> FALSE, info |-> EmptyAuthInfo]
       IN /\ auth \in DOMAIN fs
          /\ IF ~r.ok
             THEN Returned(p, "save", "ParseError", pc[p].name, pc[p].ow)
             ELSE Goto(p, [pc[p] EXCEPT !.step = "w_open",
                                        !.dst = PathIn(ProfDir(pc[p].name), MetaName),
                                        !.buf = Buf(MetaFor(pc[p].name, r.info), TRUE)])
    /\ UNCHANGED <<fs, dirs, nt, clock, pre, winHome, ops, stops, extract, prev, find>>

\* ------------------------------------ switch_to_profile, _backup_current_auth

\* Mutant: the backup is taken before the profile's credential is looked for.
MutSwitchBeginBackupFirst(p, prof) ==
    /\ pc[p].op = "idle"
    /\ ops < MaxOps
    /\ ops' = ops + 1
    /\ pre' = [pre EXCEPT ![p] = Snap(fs, dirs, prof)]
    /\ dirs' = SafeMkdir(HomeDir, dirs, nt)
    /\ Goto(p, Frame("switch", "bk", prof, FALSE,
                     PathIn(ProfDir(prof), AuthName), AuthPath, NoPath, NoBuf))
    /\ UNCHANGED <<fs, nt, clock, winHome, stops, extract, prev, find>>

\* switch_to_profile up to the backup: the profile's credential must exist,
\* CODEX_HOME is made.  prof is the name of the ProfileInfo's directory.
SwitchBegin(p, prof) ==
    /\ pc[p].op = "idle"
    /\ ops < MaxOps
    /\ ops' = ops + 1
    /\ pre' = [pre EXCEPT ![p] = Snap(fs, dirs, prof)]
    /\ LET auth == PathIn(ProfDir(prof), AuthName) IN
       IF ~FileExists(auth, fs, dirs, nt)
       THEN Returned(p, "switch", "NotFound", prof, FALSE) /\ UNCHANGED dirs
       ELSE /\ dirs' = SafeMkdir(HomeDir, dirs, nt)
            /\ Goto(p, Frame("switch", "bk", prof, FALSE, auth, AuthPath, NoPath, NoBuf))
    /\ UNCHANGED <<fs, nt, clock, winHome, stops, extract, prev, find>>

\* BACKUPS_DIR / f"auth_{ts}.json", ts the UTC time cut to the second.
BackupPath(t) == PathIn(BackupsDir, BkName(Sec(t)))

\* Mutant: switch goes on to the copy without taking the backup.
MutBackupBeginSkip(p) ==
    /\ pc[p].step = "bk"
    /\ Goto(p, [pc[p] EXCEPT !.step = "read"])
    /\ UNCHANGED <<fs, dirs, nt, clock, pre, winHome, ops, stops, extract, prev, find>>

\* _backup_current_auth up to the copy: nothing to back up without an active
\* credential; else BACKUPS_DIR is made and the backup is named by the second.
BackupBegin(p) ==
    /\ pc[p].step = "bk"
    /\ IF ~FileExists(AuthPath, fs, dirs, nt)
       THEN Goto(p, [pc[p] EXCEPT !.step = "read"]) /\ UNCHANGED dirs
       ELSE /\ dirs' = SafeMkdir(BackupsDir, dirs, nt)
            /\ Goto(p, [pc[p] EXCEPT !.step = "b_open", !.bk = BackupPath(clock)])
    /\ UNCHANGED <<fs, nt, clock, pre, winHome, ops, stops, extract, prev, find>>

\* Mutant: a backup file that exists already is left as it is.
MutBackupOpenKeepsExisting(p) ==
    /\ pc[p].step = "b_open"
    /\ LET bk == ResolvePath(pc[p].bk, dirs, nt) IN
       IF AuthPath \notin DOMAIN fs \/ DirOf(bk) \notin dirs
       THEN /\ Returned(p, pc[p].op, "IOFailure", pc[p].name, pc[p].ow)
            /\ UNCHANGED fs
       ELSE /\ fs' = IF bk \in DOMAIN fs THEN fs
                     ELSE Put(fs, bk, File(fs[AuthPath].data, FALSE, FALSE, 0))
            /\ Goto(p, [pc[p] EXCEPT !.step = "b_data",
                                     !.buf = IF bk \in DOMAIN fs
                                             THEN Buf(fs[bk].data, fs[bk].full)
                                             ELSE Buf(fs[AuthPath].data, fs[AuthPath].full)])
    /\ UNCHANGED <<dirs, nt, clock, pre, winHome, ops, stops, extract, prev, find>>

\* shutil.copy2 opens the backup file under its final name and writes into it.
BackupOpen(p) ==
    /\ pc[p].step = "b_open"
    /\ LET bk == ResolvePath(pc[p].bk, dirs, nt) IN
       IF AuthPath \notin DOMAIN fs \/ DirOf(bk) \notin dirs
       THEN /\ Returned(p, pc[p].op, "IOFailure", pc[p].name, pc[p].ow)
            /\ UNCHANGED fs
       ELSE /\ fs' = Put(fs, bk,
                         File(fs[AuthPath].data, FALSE,
                              IF bk \in DOMAIN fs THEN fs[bk].priv ELSE FALSE, 0))
            /\ Goto(p, [pc[p] EXCEPT !.step = "b_data",
                                     !.buf = Buf(fs[AuthPath].data, fs[AuthPath].full)])
    /\ UNCHANGED <<dirs, nt, clock, pre, winHome, ops, stops, extract, prev, find>>

\* The copy of the content ends.
BackupWrite(p) ==
    /\ pc[p].step = "b_data"
    /\ LET bk == ResolvePath(pc[p].bk, dirs, nt) IN
       /\ bk \in DOMAIN fs
       /\ fs' = Put(fs, bk, [fs[bk] EXCEPT !.full = pc[p].buf.full])
    /\ Goto(p, [pc[p] EXCEPT !.step = "b_stat"])
    /\ UNCHANGED <<dirs, nt, clock, pre, winHome, ops, stops, extract, prev, find>>

\* shutil.copy2 copies the source's mode (copystat).
BackupStat(p) ==
    /\ pc[p].step = "b_stat"
    /\ LET bk == ResolvePath(pc[p].bk, dirs, nt) IN
       /\ bk \in DOMAIN fs
       /\ fs' = Put(fs, bk, [fs[bk] EXCEPT !.priv =
                                IF AuthPath \in DOMAIN fs THEN fs[AuthPath].priv ELSE @])
    /\ Goto(p, [pc[p] EXCEPT !.step = "b_chmod"])
    /\ UNCHANGED <<dirs, nt, clock, pre, winHome, ops, stops, extract, prev, find>>

\* os.chmod(backup_path, 0o600); switch goes on to the copy of the profile.
BackupChmod(p) ==
    /\ pc[p].step = "b_chmod"
    /\ LET bk == ResolvePath(pc[p].bk, dirs, nt) IN
       /\ bk \in DOMAIN fs
       /\ fs' = Put(fs, bk, Chmod600(fs[bk], nt))
    /\ Goto(p, [pc[p] EXCEPT !.step = "read"])
    /\ UNCHANGED <<dirs, nt, clock, pre, winHome, ops, stops, extract, prev, find>>

\* ------------------------------------------------------------- list_profiles

\* list_profiles, called by the window to refresh its table: it returns the
\* entries in one of the orders sorted() can give, each with the AuthInfo
\* read from its auth.json, and changes nothing.
ListCall(p) ==
    /\ pc[p].op = "idle"
    /\ pre' = [pre EXCEPT ![p] = Snap(fs, dirs, <<>>)]
    /\ \E s \in ListProfiles(fs, dirs) :
          Returned(p, "list", "ok",
                   [i \in 1..Len(s) |-> [name |-> s[i], auth |-> ListedAuthInfo(fs, s[i])]],
                   FALSE)
    /\ UNCHANGED <<fs, dirs, nt, clock, winHome, ops, stops, extract, prev, find>>

\* ------------------------------------------------------------ delete_profile

\* delete_profile up to rmtree: the name is validated, the directory must exist.
DeleteBegin(p, raw) ==
    /\ pc[p].op = "idle"
    /\ ops < MaxOps
    /\ ops' = ops + 1
    /\ pre' = [pre EXCEPT ![p] = Snap(fs, dirs, raw)]
    /\ LET v == ValidateProfileName(raw, nt) IN
       IF ~v.ok
       THEN Returned(p, "delete", "InvalidName", raw, FALSE)
       ELSE IF ~DirExists(ProfDir(v.name), dirs, nt)
       THEN Returned(p, "delete", "NotFound", v.name, FALSE)
       ELSE Goto(p, Frame("delete", "rm", v.name, FALSE, NoPath, NoPath, NoPath, NoBuf))
    /\ UNCHANGED <<fs, dirs, nt, clock, winHome, stops, extract, prev, find>>

\* Mutant: the directory's files are kept; only the call returns.
MutRmTreeKeepsAll(p) ==
    /\ pc[p].step = "rm"
    /\ Returned(p, "delete", "ok", pc[p].name, FALSE)
    /\ UNCHANGED <<fs, dirs, nt, clock, pre, winHome, ops, stops, extract, prev, find>>

\* Mutant: rmtree is given the registry root and removes every profile's files.
MutRmTreeWholeRegistry(p) ==
    /\ pc[p].step = "rm"
    /\ LET d == OnDisk(ProfDir(pc[p].name), dirs, nt)
           all == {q \in DOMAIN fs : q[1] = "prof"}
       IN IF all # {}
          THEN /\ \E q \in all : fs' = Drop(fs, {q})
               /\ Goto(p, pc[p])
               /\ UNCHANGED dirs
          ELSE /\ dirs' = dirs \ {d}
               /\ Returned(p, "delete", "ok", pc[p].name, FALSE)
               /\ UNCHANGED fs
    /\ UNCHANGED <<nt, clock, pre, winHome, ops, stops, extract, prev, find>>

\* shutil.rmtree removes the files of the directory one at a time, in the
\* order the file system lists them, and then the directory.
RmTree(p) ==
    /\ pc[p].step = "rm"
    /\ LET d == OnDisk(ProfDir(pc[p].name), dirs, nt) IN
       IF FilesIn(fs, d) # {}
       THEN /\ \E q \in FilesIn(fs, d) : fs' = Drop(fs, {q})
            /\ Goto(p, pc[p])
            /\ UNCHANGED dirs
       ELSE /\ dirs' = dirs \ {d}
            /\ Returned(p, "delete", "ok", pc[p].name, FALSE)
            /\ UNCHANGED fs
    /\ UNCHANGED <<nt, clock, pre, winHome, ops, stops, extract, prev, find>>

\* --------------------------------------------- _sync_wsl_windows_auth, main

Modes == {"bootstrap", "newest", "off", "other"}

\* What the environment answers to the discovery of the Windows-side store:
\* CODEX_WIN_HOME (unset, a UNC path, the path of the store, a path that does
\* not exist), whether cmd.exe reports the user profile that holds the store,
\* and whether /mnt/c/Users exists.
Discoveries ==
    [override : {"unset", "unc", "store", "missing"},
     userprofile : BOOLEAN, usersRoot : BOOLEAN]

\* The answers of an environment without a Windows side.
NoDiscovery == [override |-> "unset", userprofile |-> FALSE, usersRoot |-> FALSE]

\* _find_windows_codex_home: "host" for the store's directory, "none" for None.
FindWindowsCodexHome(disc, f, ds) ==
    IF disc.override = "unc" THEN "none"
    ELSE IF disc.override = "store" /\ HostDir \in ds THEN "host"
    ELSE IF disc.userprofile /\ HostDir \in ds THEN "host"
    ELSE IF disc.usersRoot /\ HostAuthPath \in DOMAIN f THEN "host"
    ELSE "none"

\* The environment _find_windows_codex_home is looked at in, in full:
\*   override  CODEX_WIN_HOME: "unset"; "unc" (it starts with "\\" or "//");
\*             "posix" (the path exists as given); "win" (it does not, but
\*             _win_to_wsl_path turns it into a path that exists);
\*             "missing" (neither)
\*   profile   _find_windows_userprofile: "none" (no answer); "store" (the
\*             profile's .codex exists); "nostore" (it does not)
\*   base      /mnt/c/Users exists
\*   users     its subdirectories in the order iterdir() yields them, each
\*             with whether .codex/auth.json exists and its modification time
UserDirs == [auth : BOOLEAN, mtime : 0..MaxClock]

FindEnvs ==
    [override : {"unset", "unc", "posix", "win", "missing"},
     profile : {"none", "store", "nostore"},
     base : BOOLEAN,
     users : UNION {[1..n -> UserDirs] : n \in 0..MaxUsers}]

\* The subdirectories of /mnt/c/Users that hold .codex/auth.json.
Candidates(users) == {i \in 1..Len(users) : users[i].auth}

\* Mutant: the candidate modified longest ago is taken.
MutNewestTakesOldest(users) ==
    CHOOSE i \in Candidates(users) :
        \A j \in Candidates(users) :
            \/ users[i].mtime < users[j].mtime
            \/ users[i].mtime = users[j].mtime /\ i <= j

\* candidates.sort(key=mtime, reverse=True); candidates[0]: the sort is
\* stable, so of the candidates modified last the first listed is taken.
Newest(users) ==
    CHOOSE i \in Candidates(users) :
        \A j \in Candidates(users) :
            \/ users[i].mtime > users[j].mtime
            \/ users[i].mtime = users[j].mtime /\ i <= j

\* _find_windows_codex_home: the directory returned (<<"override">>: the
\* override as given; <<"converted">>: the override converted;
\* <<"profile">>: the user profile's .codex; <<"users", i>>: the i-th
\* subdirectory's .codex; <<"none">>: None) and the sources consulted on
\* the way.
FindStore(env) ==
    IF env.override = "unc" THEN [home |-> <<"none">>, asked |-> {"override"}]
    ELSE IF env.override = "posix" THEN [home |-> <<"override">>, asked |-> {"override"}]
    ELSE IF env.override = "win" THEN [home |-> <<"converted">>, asked |-> {"override"}]
    ELSE IF env.profile = "store"
    THEN [home |-> <<"profile">>, asked |-> {"override", "profile"}]
    ELSE IF env.base /\ Candidates(env.users) # {}
    THEN [home |-> <<"users", Newest(env.users)>>,
          asked |-> {"override", "profile", "scan"}]
    ELSE [home |-> <<"none">>, asked |-> {"override", "profile", "scan"}]

\* What can go wrong on the Windows side during one run of the bridge: the
\* shell calls give nothing (cmd.exe or wslpath missing, timed out, empty
\* output), /mnt/c/Users cannot be listed, the store's directory cannot be
\* stat'ed (permission denied), the stat of a scan candidate's auth.json
\* fails, the stat of the two credentials' modification times fails.
Faults == {"ok", "shell", "scan", "access", "candstat", "mtime"}

\* The fallback scan of /mnt/c/Users is reached and finds the store.
ScanFinds(disc, f, ds) ==
    /\ disc.override # "unc"
    /\ ~(disc.override = "store" /\ HostDir \in ds)
    /\ ~(disc.userprofile /\ HostDir \in ds)
    /\ disc.usersRoot
    /\ HostAuthPath \in DOMAIN f

\* _find_windows_codex_home under a fault: "host", "none", or "raised" when
\* the exception leaves the function.  _run_capture and the loop over
\* /mnt/c/Users catch what they raise; Path.exists() outside the loop and
\* the sort key's stat() do not.
FindUnderFault(disc, fault, f, ds) ==
    CASE fault = "shell" ->
            FindWindowsCodexHome([disc EXCEPT !.userprofile = FALSE], f, ds)
      [] fault = "scan" ->
            FindWindowsCodexHome([disc EXCEPT !.usersRoot = FALSE], f, ds)
      [] fault = "access" ->
            IF disc.override = "unc" THEN "none"
            ELSE IF (disc.override = "store" \/ disc.userprofile) /\ HostDir \in ds
            THEN "raised"
            ELSE "none"
      [] fault = "candstat" ->
            IF ScanFinds(disc, f, ds) THEN "raised"
            ELSE FindWindowsCodexHome(disc, f, ds)
      [] OTHER -> FindWindowsCodexHome(disc, f, ds)

\* Mutant: the bridge runs although CODEX_HOME is set.
MutBridgeActiveIgnoresOverride(wsl, homeSet, mode) ==
    wsl /\ mode # "off"

\* The three conditions under which _sync_wsl_windows_auth goes on to look
\* for the Windows-side store.
BridgeActive(wsl, homeSet, mode) ==
    wsl /\ ~homeSet /\ mode # "off"

\* The environment of a run of the bridge, kept with its outcome (of the
\* faults, the one that changed the course of the run).
EnvName(wsl, homeSet, fault, mode) ==
    <<IF wsl THEN "wsl" ELSE "nowsl", IF homeSet THEN "home" ELSE "nohome", fault, mode>>

\* Mutant: bootstrap imports the Windows credential over an existing one.
MutBridgeDecisionBootstrapOverwrites(mode, f) ==
    LET win == HostAuthPath \in DOMAIN f
        wsl == AuthPath \in DOMAIN f
        d == f[HostAuthPath].mtime - f[AuthPath].mtime
    IN CASE mode = "bootstrap" -> IF ~win THEN "none" ELSE "import"
         [] mode = "newest" ->
              IF ~win /\ ~wsl THEN "none"
              ELSE IF win /\ ~wsl THEN "import"
              ELSE IF wsl /\ ~win THEN "export"
              ELSE IF (IF d < 0 THEN 0 - d ELSE d) < TicksPerSec THEN "none"
              ELSE IF d > 0 THEN "import"
              ELSE "export"
         [] OTHER -> "none"

\* Mutant: newest copies the older credential over the newer one.
MutBridgeDecisionOlderWins(mode, f) ==
    LET win == HostAuthPath \in DOMAIN f
        wsl == AuthPath \in DOMAIN f
        d == f[HostAuthPath].mtime - f[AuthPath].mtime
    IN CASE mode = "bootstrap" ->
              IF wsl THEN "none" ELSE IF ~win THEN "none" ELSE "import"
         [] mode = "newest" ->
              IF ~win /\ ~wsl THEN "none"
              ELSE IF win /\ ~wsl THEN "import"
              ELSE IF wsl /\ ~win THEN "export"
              ELSE IF (IF d < 0 THEN 0 - d ELSE d) < TicksPerSec THEN "none"
              ELSE IF d < 0 THEN "import"
              ELSE "export"
         [] OTHER -> "none"

\* Mutant: newest copies the later credential however close the two
\* modification times are.
MutBridgeDecisionNoTieWindow(mode, f) ==
    LET win == HostAuthPath \in DOMAIN f
        wsl == AuthPath \in DOMAIN f
        d == f[HostAuthPath].mtime - f[AuthPath].mtime
    IN CASE mode = "bootstrap" ->
              IF wsl THEN "none" ELSE IF ~win THEN "none" ELSE "import"
         [] mode = "newest" ->
              IF ~win /\ ~wsl THEN "none"
              ELSE IF win /\ ~wsl THEN "import"
              ELSE IF wsl /\ ~win THEN "export"
              ELSE IF d > 0 THEN "import"
              ELSE "export"
         [] OTHER -> "none"

\* The copy _sync_wsl_windows_auth decides on, once the store is found:
\* "import" (Windows -> WSL), "export" (WSL -> Windows) or "none".
BridgeDecision(mode, f) ==
    LET win == HostAuthPath \in DOMAIN f
        wsl == AuthPath \in DOMAIN f
        d == f[HostAuthPath].mtime - f[AuthPath].mtime
    IN CASE mode = "bootstrap" ->
              IF wsl THEN "none" ELSE IF ~win THEN "none" ELSE "import"
         [] mode = "newest" ->
              IF ~win /\ ~wsl THEN "none"
              ELSE IF win /\ ~wsl THEN "import"
              ELSE IF wsl /\ ~win THEN "export"
              ELSE IF (IF d < 0 THEN 0 - d ELSE d) < TicksPerSec THEN "none"
              ELSE IF d > 0 THEN "import"
              ELSE "export"
         [] OTHER -> "none"

\* main() starts the tool: _sync_wsl_windows_auth runs up to the copy it
\* decides on (or returns without one, or raises), then the window opens.
Start(p, wsl, homeSet, mode, disc, fault) ==
    /\ pc[p].op = "down"
    /\ nt => ~wsl
    /\ pre' = [pre EXCEPT ![p] = Snap(fs, dirs, <<>>)]
    /\ IF ~BridgeActive(wsl, homeSet, mode)
       THEN /\ Returned(p, "bridge", "skipped", EnvName(wsl, homeSet, "ok", mode), FALSE)
            /\ UNCHANGED <<dirs, winHome>>
       ELSE LET home == FindUnderFault(disc, fault, fs, dirs)
                both == AuthPath \in DOMAIN fs /\ HostAuthPath \in DOMAIN fs
                what == IF fault = "mtime" /\ mode = "newest" /\ both
                        THEN "none"
                        ELSE BridgeDecision(mode, fs)
                felt == IF home = "raised" \/ (fault = "mtime" /\ mode = "newest" /\ both)
                        THEN fault ELSE "ok"
                env == EnvName(wsl, homeSet, felt, mode)
            IN IF home = "raised"
               THEN /\ Returned(p, "bridge", "raised", env, FALSE)
                    /\ UNCHANGED <<dirs, winHome>>
               ELSE /\ winHome' = [winHome EXCEPT ![p] = home]
                    /\ IF home = "none" \/ what = "none"
                       THEN /\ Returned(p, "bridge", "none", env, FALSE)
                            /\ UNCHANGED dirs
                       ELSE IF what = "import"
                       THEN /\ dirs' = SafeMkdir(HomeDir, dirs, nt)
                            /\ Goto(p, Frame("bridge", "read", <<"import">> \o env, FALSE,
                                             HostAuthPath, AuthPath, NoPath, NoBuf))
                       ELSE /\ UNCHANGED dirs
                            /\ Goto(p, Frame("bridge", "read", <<"export">> \o env, FALSE,
                                             AuthPath, HostAuthPath, NoPath, NoBuf))
    /\ UNCHANGED <<fs, nt, clock, ops, stops, extract, prev, find>>

\* A read or write of the Windows-side credential file fails during the
\* bridge's copy (read_bytes of the source, write_bytes of the temporary
\* file, os.replace): _copy_file_private catches only the chmod errors, so
\* the exception leaves _sync_wsl_windows_auth and main.
HostIoError(p) ==
    /\ pc[p].op = "bridge"
    /\ \/ pc[p].step = "read" /\ pc[p].src = HostAuthPath
       \/ pc[p].step \in {"w_open", "w_data", "w_replace"} /\ pc[p].dst = HostAuthPath
    /\ Returned(p, "bridge", "raised", Tail(pc[p].name), FALSE)
    /\ UNCHANGED <<fs, dirs, nt, clock, pre, winHome, ops, stops, extract, prev, find>>

\* ------------------------------------------------------- identity extraction

\* A document is handed to _extract_auth_info.
ExtractCall(d) ==
    /\ extract.step = "idle"
    /\ extract' = Extraction("called", d, FALSE, EmptyAuthInfo)
    /\ UNCHANGED <<fs, dirs, nt, clock, pc, last, pre, winHome, ops, stops, prev, find>>

\* _extract_auth_info returns the summary of its argument, or raises.
ExtractReturn ==
    /\ extract.step = "called"
    /\ extract' = IF ExtractRaises(extract.doc)
                  THEN Extraction("done", extract.doc, TRUE, EmptyAuthInfo)
                  ELSE Extraction("done", extract.doc, FALSE, ExtractAuthInfo(extract.doc))
    /\ UNCHANGED <<fs, dirs, nt, clock, pc, last, pre, winHome, ops, stops, prev, find>>

\* ------------------------------------------- discovery of the Windows side

\* _find_windows_codex_home is called in an environment.
FindCall(env) ==
    /\ find.step = "idle"
    /\ find' = Finding("called", env, <<"none">>, {})
    /\ UNCHANGED <<fs, dirs, nt, clock, pc, last, pre, winHome, ops, stops, extract, prev>>

\* It returns the directory found, or None.
FindReturn ==
    /\ find.step = "called"
    /\ find' = Finding("done", find.env, FindStore(find.env).home, FindStore(find.env).asked)
    /\ UNCHANGED <<fs, dirs, nt, clock, pc, last, pre, winHome, ops, stops, extract, prev>>

\* ------------------------------------------------------------ specification

\* The steps of save, switch and delete and of the copies they make.
CallStep(p) ==
    \/ \E raw \in InputNames, ow \in BOOLEAN : SaveBegin(p, raw, ow)
    \/ SaveInfo(p)
    \/ \E prof \in DirNames : SwitchBegin(p, prof)
    \/ BackupBegin(p)
    \/ BackupOpen(p)
    \/ BackupWrite(p)
    \/ BackupStat(p)
    \/ BackupChmod(p)
    \/ \E raw \in InputNames : DeleteBegin(p, raw)
    \/ RmTree(p)
    \/ ListCall(p)

CopyStep(p) ==
    \/ CopyRead(p)
    \/ TmpOpen(p)
    \/ TmpWrite(p)
    \/ TmpChmod(p)
    \/ Replace(p)
    \/ FinalChmod(p)
    \/ Return(p)
    \/ Stop(p)

\* The steps of a switch and of its backup and copy, for a listed profile.
SwitchStep(p) ==
    \/ \E prof \in DOMAIN SavedProfiles : SwitchBegin(p, prof)
    \/ BackupBegin(p)
    \/ BackupOpen(p)
    \/ BackupWrite(p)
    \/ BackupStat(p)
    \/ BackupChmod(p)
    \/ CopyRead(p)
    \/ TmpOpen(p)
    \/ TmpWrite(p)
    \/ TmpChmod(p)
    \/ Replace(p)
    \/ FinalChmod(p)

\* The tool outside WSL (Windows, or another POSIX system): the profile
\* registry and the active credential.
Next ==
    \/ \E p \in MainProcs :
          \/ \E homeSet \in BOOLEAN, mode \in Modes :
                Start(p, FALSE, homeSet, mode, NoDiscovery, "ok")
          \/ CallStep(p)
          \/ CopyStep(p)
    \/ \E c \in Creds : Login(c)
    \/ Tick

Spec == Init /\ [][Next]_vars

\* main() in an environment where the bridge returns at once.
StartSkipping(p) ==
    \E wsl \in BOOLEAN, homeSet \in BOOLEAN, mode \in Modes :
        /\ ~BridgeActive(wsl, homeSet, mode)
        /\ Start(p, wsl, homeSet, mode, NoDiscovery, "ok")

\* main() in an environment where the bridge looks for the Windows side.
StartSyncing(p) ==
    \E wsl \in BOOLEAN, homeSet \in BOOLEAN, mode \in Modes :
        /\ BridgeActive(wsl, homeSet, mode)
        /\ \E disc \in Discoveries, fault \in Faults :
              Start(p, wsl, homeSet, mode, disc, fault)

\* The tool on a POSIX system that may be WSL, started again and again: the
\* bridge between the active credential and the Windows-side store.
NextBridge ==
    \/ \E p \in MainProcs :
          \/ StartSkipping(p)
          \/ StartSyncing(p)
          \/ CopyStep(p)
          \/ HostIoError(p)
    \/ \E c \in Creds : Login(c)
    \/ Tick

SpecBridge == InitBridge /\ [][NextBridge]_vars

\* The registry with the names of NameInputs: save and delete, each call to
\* its end.
NextNames ==
    \/ \E p \in MainProcs :
          \/ \E homeSet \in BOOLEAN, mode \in Modes :
                Start(p, FALSE, homeSet, mode, NoDiscovery, "ok")
          \/ \E raw \in NameInputs, ow \in BOOLEAN : SaveBegin(p, raw, ow)
          \/ SaveInfo(p)
          \/ \E raw \in NameInputs : DeleteBegin(p, raw)
          \/ RmTree(p)
          \/ CopyStep(p)

SpecNames == Init /\ [][NextNames]_vars

\* The Identity Extractor alone: one call of _extract_auth_info on any of
\* the documents.
NextExtract ==
    \/ \E d \in Documents : ExtractCall(d)
    \/ ExtractReturn

SpecExtract == Init /\ [][NextExtract]_vars

\* The discovery of the Windows-side store alone: one call of
\* _find_windows_codex_home in any of the environments.
NextFind ==
    \/ \E env \in FindEnvs : FindCall(env)
    \/ FindReturn

SpecFind == Init /\ [][NextFind]_vars

\* One run of the tool on a registry in use: saves and switches made one
\* after the other from the window, each call seen with the one before it.
NextPair ==
    \/ \E p \in MainProcs :
          \/ \E homeSet \in BOOLEAN, mode \in Modes :
                Start(p, FALSE, homeSet, mode, NoDiscovery, "ok")
          \/ \E raw \in DOMAIN SavedProfiles, ow \in BOOLEAN : SaveBegin(p, raw, ow)
          \/ SaveInfo(p)
          \/ SwitchStep(p)
          \/ ReturnNoting(p)
          \/ Stop(p)
    \/ \E c \in Creds : Login(c)
    \/ Tick

SpecPair == InitSaved /\ [][NextPair]_vars

\* main() inside WSL with the Windows-side store named by CODEX_WIN_HOME.
StartPaired(p) ==
    \E mode \in {"bootstrap", "newest"} :
        Start(p, TRUE, FALSE, mode,
              [override |-> "store", userprofile |-> FALSE, usersRoot |-> FALSE], "ok")

\* The tool inside WSL, started, closed and started again: each run of the
\* bridge seen with the one before it.
NextTwice ==
    \/ \E p \in MainProcs :
          \/ StartPaired(p)
          \/ CopyRead(p)
          \/ TmpOpen(p)
          \/ TmpWrite(p)
          \/ TmpChmod(p)
          \/ Replace(p)
          \/ FinalChmod(p)
          \/ ReturnNoting(p)
          \/ Stop(p)
    \/ \E c \in Creds : Login(c)
    \/ Tick

SpecTwice == InitBridge /\ [][NextTwice]_vars

\* The tool inside WSL with the Windows-side store paired: the bridge at
\* each start, then saves, switches and deletes on the profiles "w" and "W".
NextWsl ==
    \/ \E p \in MainProcs :
          \/ StartPaired(p)
          \/ \E raw \in DOMAIN SavedProfiles, ow \in BOOLEAN : SaveBegin(p, raw, ow)
          \/ SaveInfo(p)
          \/ SwitchStep(p)
          \/ \E raw \in DOMAIN SavedProfiles : DeleteBegin(p, raw)
          \/ RmTree(p)
          \/ Return(p)
          \/ Stop(p)
    \/ \E c \in Creds : Login(c)
    \/ Tick

SpecWsl == InitBridge /\ [][NextWsl]_vars

\* Two runs of the tool at once on the same registry (two windows open),
\* each switching profiles: their steps interleave in any order.  Neither
\* run crashes, and the switches fall within one clock tick.
NextRace ==
    \E p \in Procs :
        \/ \E homeSet \in BOOLEAN, mode \in Modes :
              Start(p, FALSE, homeSet, mode, NoDiscovery, "ok")
        \/ SwitchStep(p)
        \/ Return(p)

SpecRace == InitSaved /\ [][NextRace]_vars

\* ------------------------------------------------------------------ claims

\* The one process of Spec and SpecBridge.
P0 == CHOOSE p \in MainProcs : TRUE

\* The bytes of a file.
Content(file) == Buf(file.data, file.full)

\* The call op has just returned to its caller with the given outcome.
JustReturned(op, status) ==
    /\ pc[P0].step = "ret"
    /\ last[P0].op = op
    /\ last[P0].status = status

\* The files of the backup area.
BackupArea(f) == {q \in DOMAIN f : DirOf(q) = BackupsDir}

\* The credential file of the profile a switch was given, as the call found it.
SwitchedProfile ==
    ResolvePath(PathIn(ProfDir(last[P0].name), AuthName), pre[P0].dirs, nt)

\* C1 as stated: switchTo(profile) returns with the active credential equal
\* to the profile's bytes and with exactly one new file in the backup area,
\* holding the active credential as it was before the switch (no new file
\* when there was no active credential).
C1_SwitchOneNewBackup ==
    JustReturned("switch", "ok") =>
        LET old == pre[P0].fs
            new == BackupArea(fs) \ DOMAIN old
        IN /\ AuthPath \in DOMAIN fs
           /\ Content(fs[AuthPath]) = Content(old[SwitchedProfile])
           /\ IF AuthPath \in DOMAIN old
              THEN /\ Cardinality(new) = 1
                   /\ \A q \in new : Content(fs[q]) = Content(old[AuthPath])
              ELSE new = {}

\* C1 as amended: switchTo(profile) returns with the active credential equal
\* to the profile's bytes; when an active credential existed, the one backup
\* file it writes is the file named by the second of the switch, which then
\* holds the pre-switch active credential (a new file, unless a backup was
\* already taken in that second, which is overwritten); every other file of
\* the backup area is as before; without an active credential the backup
\* area is untouched.
C1_SwitchBackupOfTheSecond ==
    JustReturned("switch", "ok") =>
        LET old == pre[P0].fs
            bk == BackupPath(clock)
            written == {q \in BackupArea(fs) : q \notin DOMAIN old \/ fs[q] # old[q]}
        IN /\ AuthPath \in DOMAIN fs
           /\ Content(fs[AuthPath]) = Content(old[SwitchedProfile])
           /\ BackupArea(old) \subseteq BackupArea(fs)
           /\ IF AuthPath \in DOMAIN old
              THEN /\ bk \in DOMAIN fs
                   /\ Content(fs[bk]) = Content(old[AuthPath])
                   /\ written \subseteq {bk}
              ELSE written = {}

\* A switch has returned after overwriting the backup taken earlier in the
\* same second.
C1_Witness ==
    /\ JustReturned("switch", "ok")
    /\ AuthPath \in DOMAIN pre[P0].fs
    /\ BackupPath(clock) \in DOMAIN pre[P0].fs

\* The final names the secure write and copy operations write to.
SecureNames == {AuthName, MetaName}

WriteSteps == {"w_open", "w_data", "w_chmod", "w_replace", "w_final"}

\* C2: a file under a final name written by the secure write/copy is never
\* partial, in any state (a crash leaves the files as they are); and at every
\* step of a write the final name holds the complete content that was there
\* before the call (no file if there was none) or the complete new content.
C2_FinalNameOldOrNew ==
    /\ \A q \in DOMAIN fs : FileOf(q) \in SecureNames => fs[q].full
    /\ \A p \in MainProcs :
          pc[p].step \in WriteSteps =>
             LET dst == ResolvePath(pc[p].dst, dirs, nt)
                 old == pre[p].fs
             IN IF dst \in DOMAIN fs
                THEN \/ Content(fs[dst]) = pc[p].buf
                     \/ dst \in DOMAIN old /\ Content(fs[dst]) = Content(old[dst])
                ELSE dst \notin DOMAIN old

\* The process has crashed in the middle of writing the temporary file of the
\* active credential, which is still whole.
C2_Witness ==
    /\ pc[P0].op = "down"
    /\ AuthPath \in DOMAIN fs
    /\ TmpOf(AuthPath) \in DOMAIN fs
    /\ ~fs[TmpOf(AuthPath)].full
    /\ fs[AuthPath].data # fs[TmpOf(AuthPath)].data

\* The timestamped backup files.
BackupFiles(f) == {q \in BackupArea(f) : FileOf(q)[1] = "auth_TS.json"}

\* C3 as stated: whenever an existing active credential is about to be
\* replaced, by switchTo or by the bridge, some backup file holds the content
\* that is being replaced.
C3_BackupBeforeOverwrite ==
    \A p \in MainProcs :
        ( /\ pc[p].op \in {"switch", "bridge"}
          /\ pc[p].step = "w_replace"
          /\ pc[p].dst = AuthPath
          /\ AuthPath \in DOMAIN fs )
        => \E q \in BackupFiles(fs) : Content(fs[q]) = Content(fs[AuthPath])

\* C4 as stated: after a successful save(name), every result of list() has
\* exactly one entry named name, and that entry's credential file holds the
\* bytes of the active credential at the time of the save.
C4_SaveThenList ==
    JustReturned("save", "ok") =>
        \A s \in ListProfiles(fs, dirs) :
            LET hits == {i \in 1..Len(s) : s[i] = last[P0].name} IN
            /\ Cardinality(hits) = 1
            /\ \A i \in hits :
                  Content(fs[PathIn(ProfDir(s[i]), AuthName)])
                      = Content(pre[P0].fs[AuthPath])

\* C5 as stated (with an active credential present): save(name) on a name
\* whose profile directory exists fails with AlreadyExists and changes
\* nothing when overwrite is false, and succeeds, leaving the snapshot's
\* credential equal to the active credential, when overwrite is true.
C5_OverwriteRule ==
    ( /\ pc[P0].step = "ret"
      /\ last[P0].op = "save"
      /\ last[P0].status # "InvalidName"
      /\ AuthPath \in DOMAIN pre[P0].fs
      /\ DirExists(ProfDir(last[P0].name), pre[P0].dirs, nt) )
    => IF ~last[P0].ow
       THEN /\ last[P0].status = "AlreadyExists"
            /\ fs = pre[P0].fs
            /\ dirs = pre[P0].dirs
       ELSE LET auth == ResolvePath(PathIn(ProfDir(last[P0].name), AuthName), dirs, nt) IN
            /\ last[P0].status = "ok"
            /\ auth \in DOMAIN fs
            /\ Content(fs[auth]) = Content(fs[AuthPath])

\* The outcome of a delete that has just returned, for a name that passed
\* validation: the directory is gone and list() does not show the name when
\* it existed, and NotFound with nothing removed when it did not.
DeleteOutcome ==
    ( /\ pc[P0].step = "ret"
      /\ last[P0].op = "delete"
      /\ last[P0].status # "InvalidName" )
    => IF DirExists(ProfDir(last[P0].name), pre[P0].dirs, nt)
       THEN /\ last[P0].status = "ok"
            /\ ~DirExists(ProfDir(last[P0].name), dirs, nt)
            /\ FilesIn(fs, OnDisk(ProfDir(last[P0].name), pre[P0].dirs, nt)) = {}
            /\ \A s \in ListProfiles(fs, dirs) :
                  \A i \in 1..Len(s) :
                     /\ s[i] # last[P0].name
                     /\ ProfDir(s[i]) # OnDisk(ProfDir(last[P0].name), pre[P0].dirs, nt)
       ELSE /\ last[P0].status = "NotFound"
            /\ fs = pre[P0].fs
            /\ dirs = pre[P0].dirs

\* A name enters the result of list() only by a step of a save into that
\* name's directory.
ListedOnlyBySave ==
    \A n \in DirNames :
        (n \notin ListedNames(fs, dirs) /\ n \in ListedNames(fs', dirs'))
        => /\ pc[P0].op = "save"
           /\ OnDisk(ProfDir(pc[P0].name), dirs, nt) = ProfDir(n)

\* C6: delete(name) on an existing profile removes it, and the name stays out
\* of every later list() until a save puts it back; delete(name) on a name
\* that does not exist fails with NotFound and removes nothing.
C6_DeleteRemoves == [](DeleteOutcome) /\ [][ListedOnlyBySave]_vars

\* A delete of a listed profile has returned.
C6_Witness ==
    /\ JustReturned("delete", "ok")
    /\ last[P0].name \in ListedNames(pre[P0].fs, pre[P0].dirs)

\* C7: with no active credential, save fails with NotFound for every valid
\* name and either overwrite flag, and creates no directory and no file.
C7_SaveWithoutActive ==
    ( /\ pc[P0].step = "ret"
      /\ last[P0].op = "save"
      /\ last[P0].status # "InvalidName"
      /\ AuthPath \notin DOMAIN pre[P0].fs )
    => /\ last[P0].status = "NotFound"
       /\ fs = pre[P0].fs
       /\ dirs = pre[P0].dirs

\* save with overwrite set has failed for want of an active credential, and
\* the registry root still does not exist.
C7_Witness ==
    /\ JustReturned("save", "NotFound")
    /\ last[P0].ow
    /\ ProfilesDir \notin dirs

\* C8 as stated: after a successful save(name), meta.json holds the name of
\* the profile's directory and the identity extracted from the snapshot's own
\* auth.json.
C8_MetaMatchesSnapshot ==
    JustReturned("save", "ok") =>
        LET d == OnDisk(ProfDir(last[P0].name), dirs, nt)
            meta == PathIn(d, MetaName)
            auth == PathIn(d, AuthName)
        IN /\ meta \in DOMAIN fs
           /\ auth \in DOMAIN fs
           /\ fs[meta].data = MetaData(d[2], ReadAuthInfo(fs[auth].data.b).info)

\* The sync mode of the bridge run in progress or just returned.
BridgeMode == pc[P0].name[Len(pc[P0].name)]

\* What went wrong on the Windows side in that run ("ok": nothing).
BridgeFault == pc[P0].name[Len(pc[P0].name) - 1]

\* The files of the Windows-side store.
HostFiles(f) == {q \in DOMAIN f : DirOf(q) = HostDir}

\* C9: in bootstrap mode the bridge, at every step, has written nothing when
\* a local active credential existed at its start (whether or not a host
\* credential is paired) and never writes the Windows side; when there was no
\* local credential and a paired host credential was found, it returns with
\* the local active credential holding the host credential's bytes.
C9_Bootstrap ==
    (pc[P0].op = "bridge" /\ BridgeMode = "bootstrap") =>
        LET old == pre[P0].fs IN
        /\ HostFiles(fs) = HostFiles(old)
        /\ \A q \in HostFiles(fs) : fs[q] = old[q]
        /\ AuthPath \in DOMAIN old => (fs = old /\ dirs = pre[P0].dirs)
        /\ ( /\ pc[P0].step = "ret"
             /\ last[P0].status # "raised"
             /\ AuthPath \notin DOMAIN old
             /\ winHome[P0] = "host"
             /\ HostAuthPath \in DOMAIN old )
           => /\ last[P0].status = "import"
              /\ AuthPath \in DOMAIN fs
              /\ Content(fs[AuthPath]) = Content(old[HostAuthPath])

\* The bridge has returned in bootstrap mode, having found the Windows-side
\* store with a credential other than the local one, which it left alone.
C9_Witness ==
    /\ JustReturned("bridge", "none")
    /\ BridgeMode = "bootstrap"
    /\ winHome[P0] = "host"
    /\ AuthPath \in DOMAIN fs
    /\ HostAuthPath \in DOMAIN fs
    /\ fs[AuthPath].data # fs[HostAuthPath].data

Abs(x) == IF x < 0 THEN 0 - x ELSE x

\* C10: in newest mode, once the Windows-side store is found: when only one
\* of the two credentials existed it has been copied to the other side, and
\* when both existed with modification times at least one second apart the
\* later one has replaced the other; both sides then hold that content.
C10_Newest ==
    ( /\ pc[P0].step = "ret"
      /\ last[P0].op = "bridge"
      /\ last[P0].status # "raised"
      /\ BridgeFault = "ok"
      /\ BridgeMode = "newest"
      /\ winHome[P0] = "host" )
    => LET old == pre[P0].fs
           l == AuthPath \in DOMAIN old
           h == HostAuthPath \in DOMAIN old
           Both(c) == /\ AuthPath \in DOMAIN fs
                      /\ HostAuthPath \in DOMAIN fs
                      /\ Content(fs[AuthPath]) = c
                      /\ Content(fs[HostAuthPath]) = c
       IN /\ (l /\ ~h) => Both(Content(old[AuthPath]))
          /\ (h /\ ~l) => Both(Content(old[HostAuthPath]))
          /\ (l /\ h /\ Abs(old[HostAuthPath].mtime - old[AuthPath].mtime) >= TicksPerSec)
             => Both(Content(IF old[HostAuthPath].mtime > old[AuthPath].mtime
                             THEN old[HostAuthPath] ELSE old[AuthPath]))

\* The bridge has returned in newest mode after replacing the local
\* credential by a different, later Windows-side credential.
C10_Witness ==
    /\ JustReturned("bridge", "import")
    /\ BridgeMode = "newest"
    /\ AuthPath \in DOMAIN pre[P0].fs
    /\ HostAuthPath \in DOMAIN pre[P0].fs
    /\ pre[P0].fs[AuthPath].data # pre[P0].fs[HostAuthPath].data
    /\ fs[AuthPath].data = pre[P0].fs[HostAuthPath].data

\* C11: in newest mode, when the local and the Windows-side credential both
\* existed at the start of the bridge with modification times less than one
\* second apart, the bridge at every step has written nothing, on either
\* side, whatever the two contents are.
C11_NewestTie ==
    ( /\ pc[P0].op = "bridge"
      /\ BridgeMode = "newest"
      /\ AuthPath \in DOMAIN pre[P0].fs
      /\ HostAuthPath \in DOMAIN pre[P0].fs
      /\ Abs(pre[P0].fs[HostAuthPath].mtime - pre[P0].fs[AuthPath].mtime) < TicksPerSec )
    => /\ fs = pre[P0].fs
       /\ dirs = pre[P0].dirs

\* The bridge has returned in newest mode with the store found and the two
\* credentials different in content and in modification time, but less than
\* one second apart.
C11_Witness ==
    /\ JustReturned("bridge", "none")
    /\ BridgeMode = "newest"
    /\ winHome[P0] = "host"
    /\ AuthPath \in DOMAIN fs
    /\ HostAuthPath \in DOMAIN fs
    /\ fs[AuthPath].data # fs[HostAuthPath].data
    /\ fs[AuthPath].mtime # fs[HostAuthPath].mtime

\* Whether that run of the bridge was inside WSL, and whether CODEX_HOME was set.
BridgeInWsl == pc[P0].name[Len(pc[P0].name) - 3] = "wsl"
BridgeHomeSet == pc[P0].name[Len(pc[P0].name) - 2] = "home"

\* C12: a run of the bridge outside WSL, or with CODEX_HOME set, or with the
\* sync mode disabled, returns at once: it has written nothing on either
\* side and has not looked for the Windows-side store (WINDOWS_CODEX_HOME
\* is as the module set it).
C12_BridgeOnlyWhenActive ==
    ( /\ pc[P0].op = "bridge"
      /\ (~BridgeInWsl \/ BridgeHomeSet \/ BridgeMode = "off") )
    => /\ pc[P0].step = "ret"
       /\ last[P0].status = "skipped"
       /\ fs = pre[P0].fs
       /\ dirs = pre[P0].dirs
       /\ winHome[P0] = "unset"

\* The bridge has returned from a run inside WSL in newest mode with
\* CODEX_HOME set, leaving alone a local credential older than a different
\* Windows-side one.
C12_Witness ==
    /\ JustReturned("bridge", "skipped")
    /\ BridgeInWsl
    /\ BridgeHomeSet
    /\ BridgeMode = "newest"
    /\ AuthPath \in DOMAIN fs
    /\ HostAuthPath \in DOMAIN fs
    /\ fs[AuthPath].data # fs[HostAuthPath].data
    /\ fs[HostAuthPath].mtime - fs[AuthPath].mtime >= TicksPerSec

\* C13: the bridge is never fatal: whatever fails while the Windows side is
\* located or accessed, no run of the bridge ends with an exception leaving
\* _sync_wsl_windows_auth (which would end main before the window opens).
C13_BridgeNeverFatal ==
    ~( /\ pc[P0].step = "ret"
       /\ last[P0].op = "bridge"
       /\ last[P0].status = "raised" )

\* The value of a field of a document, JNull where there is none.
Field(j, key) == IF j.t = "dict" /\ key \in DOMAIN j.v THEN j.v[key] ELSE JNull

\* The document of the call of _extract_auth_info that has returned.
Doc == extract.doc

\* C14 as stated: the login_type extracted is api_key when the API-key
\* field is a non-empty string (whether or not a refresh token is present),
\* otherwise chatgpt when tokens.refresh_token is a non-empty string,
\* otherwise unknown.
C14_LoginType ==
    (extract.step = "done" /\ ~extract.raised) =>
        LET key == Field(Doc, "OPENAI_API_KEY")
            refresh == Field(Field(Doc, "tokens"), "refresh_token")
        IN extract.info.login_type =
              (IF key.t = "str" /\ key.v # "" THEN Some("api_key")
               ELSE IF refresh.t = "str" /\ refresh.v # "" THEN Some("chatgpt")
               ELSE None)

\* A string of white space only.
Blank(str) == str \in {"", " "}

\* C14 as amended: the login_type extracted is api_key when the API-key
\* field is a string with a character other than white space (whether or
\* not a refresh token is present), otherwise chatgpt when
\* tokens.refresh_token is a non-empty string, otherwise unknown.
C14_LoginTypeStripped ==
    (extract.step = "done" /\ ~extract.raised) =>
        LET key == Field(Doc, "OPENAI_API_KEY")
            refresh == Field(Field(Doc, "tokens"), "refresh_token")
        IN extract.info.login_type =
              (IF key.t = "str" /\ ~Blank(key.v) THEN Some("api_key")
               ELSE IF refresh.t = "str" /\ refresh.v # "" THEN Some("chatgpt")
               ELSE None)

\* The extraction has returned for a document whose API key is white space
\* only and whose refresh token is set.
C14_Witness ==
    /\ extract.step = "done"
    /\ Field(Doc, "OPENAI_API_KEY") = JStr(" ")
    /\ Field(Field(Doc, "tokens"), "refresh_token") = JStr("r1")
    /\ extract.info.login_type = Some("chatgpt")

\* C15: identity extraction is total, it returns a summary for every
\* document without raising; the email is the email claim of the id token's
\* payload when that is a non-empty string, otherwise the payload's
\* preferred_username when that is a non-empty string, otherwise none; a
\* token with fewer than two dot-separated segments yields no email.
C15_ExtractTotal ==
    extract.step = "done" =>
        LET idTok == Field(Field(Doc, "tokens"), "id_token")
            payload == IF idTok.t = "str" /\ idTok.v # ""
                       THEN DecodeJwtPayload(idTok.v) ELSE JNull
            mail == Field(payload, "email")
            user == Field(payload, "preferred_username")
        IN /\ ~extract.raised
           /\ extract.info.email =
                 (IF mail.t = "str" /\ mail.v # "" THEN Some(mail.v)
                  ELSE IF user.t = "str" /\ user.v # "" THEN Some(user.v)
                  ELSE None)
           /\ (idTok.t = "str" /\ Len(SplitDots(idTok.v)) < 2)
              => extract.info.email = None

\* The names C16 says are rejected: the empty name, ".", "..", a name with
\* "/" or "\", and on Windows a name ending in a space or a dot or holding a
\* reserved character.
SaidInvalid(raw, isNt) ==
    \/ raw = <<>>
    \/ raw \in {<<".">>, <<".", ".">>}
    \/ Contains(raw, {"/", "\\"})
    \/ isNt /\ EndsWith(raw, {" ", "."})
    \/ isNt /\ Contains(raw, NtInvalidChars)

\* C16: save and delete reject with InvalidName every name that is empty,
\* "." or "..", holds "/" or "\", or on Windows ends in a space or a dot or
\* holds a reserved character; they do not reject the ordinary names "w"
\* and "w-2"; a call that rejects the name has changed no file and no
\* directory.
C16_NameValidation ==
    pc[P0].op \in {"save", "delete"} =>
        LET rejected == pc[P0].step = "ret" /\ last[P0].status = "InvalidName" IN
        /\ SaidInvalid(pre[P0].arg, nt) => rejected
        /\ pre[P0].arg \in {<<"w">>, <<"w", "-", "2">>} => ~rejected
        /\ rejected => (fs = pre[P0].fs /\ dirs = pre[P0].dirs)

\* The credential-bearing files under their final names: the active
\* credential, the auth.json of the snapshots, the backup files.
CredentialFiles(f) ==
    {q \in DOMAIN f : q = AuthPath
                         \/ (DirOf(q)[1] = "prof" /\ FileOf(q) = AuthName)
                         \/ q \in BackupFiles(f)}

\* C17: where the platform has mode bits, every credential-bearing file
\* (active credential, snapshot auth.json, backup file) is owner-only in
\* every state in which it exists under its final name, at every step of
\* switch and save.
C17_OwnerOnly ==
    ~nt => \A q \in CredentialFiles(fs) : fs[q].priv

\* C18: no step of save(name, overwrite) or delete(name), whatever name
\* passed validation, adds, removes or replaces a file inside the backup
\* directory: the directory and every file in it are as the call found them.
C18_BackupAreaUntouched ==
    pc[P0].op \in {"save", "delete"} =>
        /\ BackupArea(fs) = BackupArea(pre[P0].fs)
        /\ \A q \in BackupArea(fs) : fs[q] = pre[P0].fs[q]
        /\ (BackupsDir \in pre[P0].dirs) => (BackupsDir \in dirs)

\* The profile directories, directly under the registry root as the list
\* call found it, whose name does not start with "_" and which hold an
\* auth.json.
ToBeListed ==
    {n \in DirNames : /\ ProfDir(n) \in pre[P0].dirs
                      /\ Head(n) # "_"
                      /\ PathIn(ProfDir(n), AuthName) \in DOMAIN pre[P0].fs}

\* The auth.json of a profile, as the list call found it, does not parse.
Unparseable(n) ==
    LET d == pre[P0].fs[PathIn(ProfDir(n), AuthName)].data IN
    d.k # "cred" \/ ~LoadJson(d.b).ok

\* C19: list() returns, without failing, exactly the directories under the
\* registry root whose name does not start with an underscore and which hold
\* a credential file, each once, in case-insensitive order of their names;
\* a directory without a credential file is skipped and a credential file
\* that does not parse is listed with an empty identity; nothing is changed.
C19_ListExact ==
    (pc[P0].step = "ret" /\ last[P0].op = "list") =>
        LET r == last[P0].name IN
        /\ last[P0].status = "ok"
        /\ {r[i].name : i \in 1..Len(r)} = ToBeListed
        /\ Len(r) = Cardinality(ToBeListed)
        /\ \A i, j \in 1..Len(r) : i < j => SeqLeq(Lower(r[i].name), Lower(r[j].name))
        /\ \A i \in 1..Len(r) : Unparseable(r[i].name) => r[i].auth = EmptyAuthInfo
        /\ fs = pre[P0].fs
        /\ dirs = pre[P0].dirs

\* list() has returned a profile whose credential file does not parse,
\* while the backup directory holds an auth.json and another profile
\* directory holds none.
C19_Witness ==
    /\ JustReturned("list", "ok")
    /\ \E i \in 1..Len(last[P0].name) : Unparseable(last[P0].name[i].name)
    /\ PathIn(BackupsDir, AuthName) \in DOMAIN fs
    /\ \E n \in DirNames : /\ Head(n) # "_"
                           /\ ProfDir(n) \in dirs
                           /\ PathIn(ProfDir(n), AuthName) \notin DOMAIN fs

\* C20: switchTo(profile) on a profile whose credential file is missing
\* fails at once with NotFound: the active credential and every other file
\* and directory are as before, and no backup file is created.
C20_SwitchMissing ==
    ( /\ pc[P0].op = "switch"
      /\ ResolvePath(PathIn(ProfDir(pre[P0].arg), AuthName), pre[P0].dirs, nt)
            \notin DOMAIN pre[P0].fs )
    => /\ pc[P0].step = "ret"
       /\ last[P0].status = "NotFound"
       /\ fs = pre[P0].fs
       /\ dirs = pre[P0].dirs
       /\ BackupFiles(fs) = BackupFiles(pre[P0].fs)

\* A switch to a profile whose directory exists without an auth.json has
\* returned NotFound while an active credential exists.
C20_Witness ==
    /\ JustReturned("switch", "NotFound")
    /\ AuthPath \in DOMAIN fs
    /\ DirExists(ProfDir(last[P0].name), dirs, nt)

\* The bytes are not a well-formed JSON document, or are one that is no
\* JSON object.
NoJsonObject(bytes) == ~LoadJson(bytes).ok \/ ~IsDict(LoadJson(bytes).val)

\* C21: identity-derivation errors never block save: when the active
\* credential exists but is not well-formed JSON (or is no JSON object), a
\* save(name) that the name and the overwrite rule let through returns
\* successfully, the snapshot holds the bytes of the active credential, and
\* meta.json is written with no account_id, no email and no login_type.
C21_SaveAbsorbsParseErrors ==
    ( /\ pc[P0].step = "ret"
      /\ last[P0].op = "save"
      /\ last[P0].status \notin {"InvalidName", "AlreadyExists"}
      /\ AuthPath \in DOMAIN pre[P0].fs
      /\ NoJsonObject(pre[P0].fs[AuthPath].data.b) )
    => LET d == OnDisk(ProfDir(last[P0].name), dirs, nt)
           auth == PathIn(d, AuthName)
           meta == PathIn(d, MetaName)
       IN /\ last[P0].status = "ok"
          /\ auth \in DOMAIN fs
          /\ Content(fs[auth]) = Content(pre[P0].fs[AuthPath])
          /\ meta \in DOMAIN fs
          /\ fs[meta].full
          /\ fs[meta].data.k = "meta"
          /\ fs[meta].data.account_id = None
          /\ fs[meta].data.email = None
          /\ fs[meta].data.login_type = None

\* C30: a crash of the process at any step of switchTo leaves no partially
\* written file under a backup name: once the process is down, every file
\* of the backup area named as a backup is complete.
C30_BackupNeverPartial ==
    pc[P0].op = "down" => \A q \in BackupFiles(fs) : fs[q].full

\* What list() shows of a registry: the names it returns, each with the
\* files of its directory (the credential and the metadata) as they are.
Registry(f, ds) ==
    [n \in ListedNames(f, ds) |-> [q \in FilesIn(f, ProfDir(n)) |-> f[q]]]

\* C27: a save call that reports a failure (InvalidName, NotFound,
\* AlreadyExists, or an error raised after the credential copy) leaves the
\* registry as it was before the call: list() returns the same entries with
\* the same credential and metadata content.
C27_FailedSaveChangesNothing ==
    ( /\ pc[P0].step = "ret"
      /\ last[P0].op = "save"
      /\ last[P0].status # "ok" )
    => Registry(fs, dirs) = Registry(pre[P0].fs, pre[P0].dirs)

\* The files of f other than those in the set out.
Outside(f, out) == [q \in DOMAIN f \ out |-> f[q]]

\* The directory a save or delete in progress is aimed at: the directory
\* of the validated name, under the spelling the file system has for it.
TargetDir ==
    OnDisk(ProfDir(ValidateProfileName(pre[P0].arg, nt).name), pre[P0].dirs, nt)

\* C26: at every step, delete(name) has changed nothing but the directory
\* of that profile; save(name) has changed nothing but that profile's
\* directory (and the registry root, made on first use), so the active
\* credential and every other profile are as before; switchTo(profile) has
\* changed nothing but the active credential (with the temporary file it is
\* written through) and the backup file of that second, so every profile's
\* credential and metadata are as before.
C26_Frame ==
    /\ pc[P0].op = "delete" =>
          /\ Outside(fs, FilesIn(fs, TargetDir) \cup FilesIn(pre[P0].fs, TargetDir))
                = Outside(pre[P0].fs, FilesIn(pre[P0].fs, TargetDir))
          /\ dirs \ {TargetDir} = pre[P0].dirs \ {TargetDir}
    /\ pc[P0].op = "save" =>
          /\ Outside(fs, FilesIn(fs, TargetDir) \cup FilesIn(pre[P0].fs, TargetDir))
                = Outside(pre[P0].fs, FilesIn(pre[P0].fs, TargetDir))
          /\ dirs \ {TargetDir, ProfilesDir} = pre[P0].dirs \ {TargetDir, ProfilesDir}
    /\ pc[P0].op = "switch" =>
          LET own == {AuthPath, TmpOf(AuthPath), BackupPath(clock)} IN
          /\ Outside(fs, own) = Outside(pre[P0].fs, own)
          /\ {d \in dirs : d[1] = "prof"} \ {BackupsDir}
                = {d \in pre[P0].dirs : d[1] = "prof"} \ {BackupsDir}

\* A delete has returned after removing one of two listed profiles; the
\* other is still listed.
C26_Witness ==
    /\ JustReturned("delete", "ok")
    /\ last[P0].name \in ListedNames(pre[P0].fs, pre[P0].dirs)
    /\ ListedNames(fs, dirs) # {}

\* Both runs of the tool are inside switchTo, on different profiles.
BothSwitching ==
    /\ \A p \in Procs : pc[p].op = "switch"
    /\ \A p, q \in Procs : p # q => pc[p].name # pc[q].name

\* C24: when two runs of the tool execute switchTo at once on different
\* profiles, with their steps interleaved in any order, the active location
\* never holds a partially written file, and once both calls have returned
\* the active credential holds the complete bytes of one of the two profiles.
C24_LastWriterWins ==
    BothSwitching =>
        /\ AuthPath \in DOMAIN fs => fs[AuthPath].full
        /\ (\A p \in Procs : pc[p].step = "ret") =>
              /\ AuthPath \in DOMAIN fs
              /\ \E p \in Procs :
                    Content(fs[AuthPath])
                        = Buf(CredData(SavedProfiles[pc[p].name]), TRUE)

\* The call before the one that has just returned was op, and it succeeded.
After(op) == prev[P0].op = op /\ prev[P0].status = "ok"

\* C28: save followed by switch is a round trip: after save(name), made
\* with an active credential present, and then switchTo on the saved
\* profile, the switch has succeeded and the active credential holds the
\* bytes it held before the save; and after switchTo(p) and then
\* save(q, overwrite=true), q's credential holds the bytes of p's.
C28_RoundTrip ==
    /\ ( /\ pc[P0].step = "ret"
         /\ last[P0].op = "switch"
         /\ After("save")
         /\ prev[P0].active # NoBuf
         /\ last[P0].name = prev[P0].name )
       => /\ last[P0].status = "ok"
          /\ AuthPath \in DOMAIN fs
          /\ Content(fs[AuthPath]) = prev[P0].active
    /\ ( /\ pc[P0].step = "ret"
         /\ last[P0].op = "save"
         /\ last[P0].ow
         /\ After("switch") )
       => LET p == PathIn(ProfDir(prev[P0].name), AuthName)
              q == PathIn(ProfDir(last[P0].name), AuthName)
          IN /\ p \in DOMAIN fs
             /\ q \in DOMAIN fs
             /\ Content(fs[q]) = Content(fs[p])

\* A save over a profile of another credential has returned, made right
\* after a switch to a different profile, whose bytes it now holds.
C28_Witness ==
    /\ JustReturned("save", "ok")
    /\ last[P0].ow
    /\ After("switch")
    /\ prev[P0].name # last[P0].name
    /\ Content(pre[P0].fs[PathIn(ProfDir(last[P0].name), AuthName)])
          # Content(fs[PathIn(ProfDir(last[P0].name), AuthName)])

\* The second of two switches made one after the other has returned; both
\* found an active credential and took their backup in the same second.
SecondSwitchOfASecond ==
    /\ JustReturned("switch", "ok")
    /\ After("switch")
    /\ prev[P0].active # NoBuf
    /\ AuthPath \in DOMAIN pre[P0].fs
    /\ BackupPath(clock) \in DOMAIN pre[P0].fs

\* C25 as stated: two switchTo calls that take their backup within the same
\* second write the same backup file: after both, that file holds the
\* credential that was active before the second call, and the credential
\* that was active before the first call is held by no backup file.
C25_SameSecondOverwrite ==
    SecondSwitchOfASecond =>
        /\ Content(fs[BackupPath(clock)]) = Content(pre[P0].fs[AuthPath])
        /\ \A q \in BackupFiles(fs) : Content(fs[q]) # prev[P0].active

\* C25 as amended: after both calls the backup file of that second holds
\* the credential that was active before the second call, in place of the
\* one that was active before the first; the latter is held by a backup file
\* only where it is byte-equal to the former, or where the backup of another
\* second, which is left as it was, holds the same bytes.
C25_SameSecondReplaces ==
    SecondSwitchOfASecond =>
        /\ Content(pre[P0].fs[BackupPath(clock)]) = prev[P0].active
        /\ Content(fs[BackupPath(clock)]) = Content(pre[P0].fs[AuthPath])
        /\ \A q \in BackupFiles(fs) :
              Content(fs[q]) = prev[P0].active
              => \/ prev[P0].active = Content(pre[P0].fs[AuthPath])
                 \/ /\ q # BackupPath(clock)
                    /\ q \in DOMAIN pre[P0].fs
                    /\ fs[q] = pre[P0].fs[q]

\* The second switch of a second has returned, and the credential that was
\* active before the first, different from the one active before the
\* second, is in no backup file any more.
C25_Witness ==
    /\ SecondSwitchOfASecond
    /\ prev[P0].active # Content(pre[P0].fs[AuthPath])
    /\ \A q \in BackupFiles(fs) : Content(fs[q]) # prev[P0].active

\* C29: newest-mode sync is idempotent: when a run of the bridge in newest
\* mode has copied a credential from one side to the other, the next run in
\* newest mode, with no change to either credential in between, writes
\* nothing and returns without a copy, whatever time passed between the
\* source's modification and the first run.
C29_NewestIdempotent ==
    ( /\ pc[P0].op = "bridge"
      /\ BridgeMode = "newest"
      /\ prev[P0].op = "bridge"
      /\ prev[P0].status \in {"import", "export"}
      /\ prev[P0].name[Len(prev[P0].name)] = "newest" )
    => /\ fs = pre[P0].fs
       /\ pc[P0].step = "ret"
       /\ last[P0].status = "none"

\* Every credential file: the active credential, the auth.json of the
\* snapshots, the backup files, the Windows-side credential.
AllCredentials(f) == CredentialFiles(f) \cup ({HostAuthPath} \cap DOMAIN f)

\* C22: the core relocates credential content and never rewrites it: when
\* a save, switchTo, delete or bridge run returns, every credential file
\* (active, snapshot auth.json, backup, host-side) holds the bytes some
\* credential file held when the call began, so that over any sequence of
\* calls no credential content appears that was not there before it.
C22_RelocatesOnly ==
    pc[P0].step = "ret" =>
        \A q \in AllCredentials(fs) :
            \E r \in AllCredentials(pre[P0].fs) :
                Content(fs[q]) = Content(pre[P0].fs[r])

\* The bridge has exported the local credential over a different
\* Windows-side one, in a run of the tool that follows a save.
C22_Witness ==
    /\ JustReturned("bridge", "export")
    /\ \E n \in DOMAIN SavedProfiles : PathIn(ProfDir(n), AuthName) \in DOMAIN fs
    /\ HostAuthPath \in DOMAIN pre[P0].fs
    /\ Content(pre[P0].fs[HostAuthPath]) # Content(fs[HostAuthPath])

\* The override, and the user profile, yields a usable directory.
OverrideUsable == find.env.override \in {"posix", "win"}
ProfileUsable == find.env.profile = "store"

\* The scan has returned, among the subdirectories that hold a credential
\* file, one whose credential file was modified last (None if there is none).
ScanResult ==
    LET users == find.env.users
        cands == IF find.env.base THEN Candidates(users) ELSE {}
    IN IF cands = {} THEN find.home = <<"none">>
       ELSE \E i \in cands :
               /\ find.home = <<"users", i>>
               /\ \A j \in cands : users[i].mtime >= users[j].mtime

\* The directory returned is that of the first source that yields one.
FirstUsable ==
    IF OverrideUsable THEN find.home \in {<<"override">>, <<"converted">>}
    ELSE IF ProfileUsable THEN find.home = <<"profile">>
    ELSE ScanResult

====
